---- MODULE Spec2Model ----
(***************************************************************************)
(* A model of the statistics-and-reconciliation engine of WoWDBDefs'       *)
(* Python tools: the column statistics collector (generate_stats), the     *)
(* merge operator (DbdColumnAnalysis.__add__), tag inference (infer_type), *)
(* the sentinel-null detection of analyze_table / analyze_fk_nulls, and    *)
(* the foreign-key type reconciler (fk_fixup) of dbd_to_mysql.             *)
(***************************************************************************)
EXTENDS Integers, Sequences, FiniteSets, TLC

VARIABLES
    pc,         \* position of the modelled driver
    values,     \* data[k]: the raw cells of the CSV column being read
    stats,      \* the DbdColumnAnalysis of `values`
    slots,      \* the collector records of the array slots, in CSV order
    pool,       \* partial sums of `slots` built with __add__
    view,       \* DbdVersionedView: table -> column -> declaration
    data,       \* AnalysisData: DbdColumnId -> DbdColumnAnalysis
    todo,       \* the tables the driver has still to visit
    declared,   \* the view as it was loaded, before fk_fixup
    fkreferents, \* the FK graph main() built from the view (its fkcols)
    builds,     \* a DbdBuilds dict: its items, in insertion order
    lookup,     \* the last `key in builds` or `builds[key]` and its outcome
    datadir,    \* args.datadir of load.py: table -> its CSV file
    rows        \* what the last load_one built for insert_rows, or what it raised

vars == <<pc, values, stats, slots, pool, view, data, todo, declared, fkreferents, builds, lookup,
          datadir, rows>>

(***************************************************************************)
(* Bounds of the model.                                                    *)
(***************************************************************************)
\* the largest number of CSV rows read into one column
MaxRows == 4
\* the largest number of CSV rows read into one array slot
MaxSlotRows == 2
\* the largest number of rows of a table's CSV file
MaxTableRows == 3
\* the largest number of rows of a referer's CSV file
MaxFixupRows == 3
\* the largest number of rows of the CSV file of a table with an array column
MaxArrayRows == 2

(***************************************************************************)
(* Python numbers.  A number is kept in halves (h = 2 * value) so that the *)
(* float literals of the model are exact; isf tells a float from an int,   *)
(* nan is float("nan").  None is the absent Optional.                      *)
(***************************************************************************)
None == [some |-> FALSE, nan |-> FALSE, isf |-> FALSE, h |-> 0]
PyInt(n) == [some |-> TRUE, nan |-> FALSE, isf |-> FALSE, h |-> 2 * n]
PyFloat(halves) == [some |-> TRUE, nan |-> FALSE, isf |-> TRUE, h |-> halves]
NaN == [some |-> TRUE, nan |-> TRUE, isf |-> TRUE, h |-> 0]

\* a < b, a == b, a >= b as Python evaluates them: false when either is nan
Lt(a, b) == ~a.nan /\ ~b.nan /\ a.h < b.h
NumEq(a, b) == ~a.nan /\ ~b.nan /\ a.h = b.h
Ge(a, b) == ~a.nan /\ ~b.nan /\ a.h >= b.h

\* min(a, b) and max(a, b): the first argument unless the second is strictly better
PyMin(a, b) == IF Lt(b, a) THEN b ELSE a
PyMax(a, b) == IF Lt(a, b) THEN b ELSE a

\* a == b for two Optionals: None == None, a number never equals None
PyEq(a, b) == IF a.some /\ b.some THEN NumEq(a, b) ELSE a.some = b.some

RECURSIVE BitLengthNat(_)
BitLengthNat(n) == IF n = 0 THEN 0 ELSE 1 + BitLengthNat(n \div 2)
\* int.bit_length(): the bits of the absolute value
bit_length(x) == BitLengthNat(IF x.h < 0 THEN (-x.h) \div 2 ELSE x.h \div 2)

\* nonemax that keeps its first argument whenever it has one
nonemax_First(a, b) == IF ~a.some THEN b ELSE a

nonemin(a, b) == IF ~a.some THEN b ELSE IF ~b.some THEN a ELSE PyMin(a, b)
nonemax(a, b) == IF ~a.some THEN b ELSE IF ~b.some THEN a ELSE PyMax(a, b)

(***************************************************************************)
(* int(v) and float(v) on the literals of the model.  A literal outside    *)
(* IntTable raises ValueError in int(); one outside FloatTable raises it   *)
(* in float() and is text.  "-01" and "-1" are different literals with the *)
(* same value; "-1.0" is a float equal to the int -1.                      *)
(***************************************************************************)
IntTable ==
    ("0" :> 0) @@ ("1" :> 1) @@ ("2" :> 2) @@ ("3" :> 3) @@ ("5" :> 5) @@
    ("7" :> 7) @@ ("-1" :> -1) @@ ("-01" :> -1) @@ ("-2" :> -2) @@ ("-3" :> -3)

FloatTable ==
    ("2.5" :> PyFloat(5)) @@ ("-0.5" :> PyFloat(-1)) @@ ("0.0" :> PyFloat(0)) @@
    ("-1.0" :> PyFloat(-2)) @@ ("nan" :> NaN) @@
    [v \in DOMAIN IntTable |-> PyFloat(2 * IntTable[v])]

IntParses(v) == v \in DOMAIN IntTable
FloatParses(v) == v \in DOMAIN FloatTable


\* the cells a CSV column is read from; "" is the null cell
Literals == {"", "0", "0.0", "1", "-1", "-2", "-0.5", "2.5", "nan", "ab", "abc"}
\* the cells an array slot is read from
SlotLiterals == {"", "-1", "-2", "nan", "ab"}

(***************************************************************************)
(* DbdColumnAnalysis                                                       *)
(***************************************************************************)
NoFk == [table |-> "", column |-> [base |-> "", slot |-> ""]]

DbdColumnAnalysis ==
    [num_rows |-> 0, num_null |-> 0, num_int |-> 0, num_float |-> 0, num_str |-> 0,
     num_dupe |-> 0, num_zero |-> 0, num_negative |-> 0, num_neg_vals |-> 0,
     val_min |-> None, val_max |-> None, need_bits |-> None,
     len_min |-> None, len_max |-> None,
     seen_types |-> {}, tags |-> {}, issues |-> {}, fk |-> NoFk]

Range(seq) == {seq[i] : i \in 1..Len(seq)}

\* Counter(seq)[v]
Count(seq, v) == Cardinality({i \in 1..Len(seq) : seq[i] = v})

\* the keys of Counter(seq), in the order of their first occurrence
RECURSIVE CounterKeys(_)
CounterKeys(seq) ==
    IF seq = <<>> THEN <<>>
    ELSE LET front == SubSeq(seq, 1, Len(seq) - 1)
             last == seq[Len(seq)]
             keys == CounterKeys(front)
         IN IF \E i \in 1..Len(front) : front[i] = last THEN keys
            ELSE Append(keys, last)

\* StatsNumber with num_negative and num_zero raised by one for each literal
StatsNumber_Unweighted(an, x, c, kind) ==
    LET lo == IF ~an.val_min.some THEN x ELSE PyMin(an.val_min, x)
        hi == IF ~an.val_min.some THEN x ELSE PyMax(an.val_max, x)
        neg == Lt(x, PyInt(0))
        zero == NumEq(x, PyInt(0))
    IN [an EXCEPT
          !.val_min = lo,
          !.val_max = hi,
          !.num_neg_vals = IF neg THEN @ + 1 ELSE @,
          !.num_negative = IF neg THEN @ + 1 ELSE @,
          !.num_zero = IF zero THEN @ + 1 ELSE @,
          !.seen_types = @ \cup {kind},
          !.num_int = IF kind = "int" THEN @ + c ELSE @,
          !.num_float = IF kind = "float" THEN @ + c ELSE @]

\* the numeric branch of the loop body for a value x seen c times
StatsNumber(an, x, c, kind) ==
    LET lo == IF ~an.val_min.some THEN x ELSE PyMin(an.val_min, x)
        hi == IF ~an.val_min.some THEN x ELSE PyMax(an.val_max, x)
        neg == Lt(x, PyInt(0))
        zero == NumEq(x, PyInt(0))
    IN [an EXCEPT
          !.val_min = lo,
          !.val_max = hi,
          !.num_neg_vals = IF neg THEN @ + 1 ELSE @,
          !.num_negative = IF neg THEN @ + c ELSE @,
          !.num_zero = IF zero THEN @ + c ELSE @,
          !.seen_types = @ \cup {kind},
          !.num_int = IF kind = "int" THEN @ + c ELSE @,
          !.num_float = IF kind = "float" THEN @ + c ELSE @]

\* the text branch of the loop body
\* StatsString with every distinct literal counted once, not c times
StatsString_CountsOnce(an, v, c) ==
    LET n == PyInt(Len(v))
    IN [an EXCEPT
          !.len_min = IF ~an.len_min.some THEN n ELSE PyMin(an.len_min, n),
          !.len_max = IF ~an.len_min.some THEN n ELSE PyMax(an.len_max, n),
          !.seen_types = @ \cup {"string"},
          !.num_str = @ + 1]

StatsString(an, v, c) ==
    LET n == PyInt(Len(v))
    IN [an EXCEPT
          !.len_min = IF ~an.len_min.some THEN n ELSE PyMin(an.len_min, n),
          !.len_max = IF ~an.len_min.some THEN n ELSE PyMax(an.len_max, n),
          !.seen_types = @ \cup {"string"},
          !.num_str = @ + c]

\* one iteration of `for v, c in value_counts.items()`
StatsStep(an, v, c) ==
    IF IntParses(v) THEN StatsNumber(an, PyInt(IntTable[v]), c, "int")
    ELSE IF FloatParses(v) THEN StatsNumber(an, FloatTable[v], c, "float")
    ELSE StatsString(an, v, c)

RECURSIVE StatsLoop(_, _, _)
StatsLoop(an, keys, nonnull) ==
    IF keys = <<>> THEN an
    ELSE StatsLoop(StatsStep(an, Head(keys), Count(nonnull, Head(keys))),
                   Tail(keys), nonnull)

\* the collapse of int into float after the loop
\* CollapseKinds without the discard of int
CollapseKinds_KeepInt(seen) ==
    seen

CollapseKinds(seen) ==
    IF "int" \in seen /\ "float" \in seen THEN seen \ {"int"} ELSE seen

generate_stats(column) ==
    LET \* [x for x in column if x]
        nonnull == SelectSeq(column, LAMBDA x : x # "")
        keys == CounterKeys(nonnull)
        start == [DbdColumnAnalysis EXCEPT
                    !.num_rows = Len(column),
                    !.num_null = Len(column) - Len(nonnull),
                    !.num_dupe = Len(nonnull) - Len(keys)]
        looped == StatsLoop(start, keys, nonnull)
        seen == CollapseKinds(looped.seen_types)
    IN [looped EXCEPT
          !.seen_types = seen,
          !.need_bits = IF "int" \in seen
                        THEN PyInt(IF bit_length(looped.val_min) > bit_length(looped.val_max)
                                   THEN bit_length(looped.val_min)
                                   ELSE bit_length(looped.val_max))
                        ELSE None]

\* the assertion of line 320, where need_bits is computed
NeedBitsAssertion(an) ==
    "int" \in an.seen_types => (~an.val_min.isf /\ ~an.val_max.isf)

(***************************************************************************)
(* DbdColumnAnalysis.__add__                                               *)
(***************************************************************************)
AddNegVals(self, d) ==
    IF self.num_neg_vals = 1 /\ d.num_neg_vals = 1 /\ PyEq(self.val_min, d.val_min)
    THEN 1
    ELSE self.num_neg_vals + d.num_neg_vals

__add__(self, d) ==
    [num_rows |-> self.num_rows + d.num_rows,
     num_null |-> self.num_null + d.num_null,
     num_int |-> self.num_int + d.num_int,
     num_float |-> self.num_float + d.num_float,
     num_str |-> self.num_str + d.num_str,
     num_dupe |-> self.num_dupe + d.num_dupe,
     num_zero |-> self.num_zero + d.num_zero,
     num_negative |-> self.num_negative + d.num_negative,
     num_neg_vals |-> AddNegVals(self, d),
     val_min |-> nonemin(self.val_min, d.val_min),
     val_max |-> nonemax(self.val_max, d.val_max),
     need_bits |-> nonemax(self.need_bits, d.need_bits),
     len_min |-> nonemin(self.len_min, d.len_min),
     len_max |-> nonemax(self.len_max, d.len_max),
     seen_types |-> self.seen_types \cup d.seen_types,
     tags |-> self.tags \cup d.tags,
     issues |-> self.issues \cup d.issues,
     fk |-> self.fk]

(***************************************************************************)
(* infer_type                                                              *)
(***************************************************************************)
\* KindTag without the test for several kinds
KindTag_FirstKind(seen) ==
    IF Cardinality(seen) = 0 THEN {"NO_TYPES"}
    ELSE IF "int" \in seen THEN {"INT"}
    ELSE IF "float" \in seen THEN {"FLOAT"}
    ELSE {"STRING"}

KindTag(seen) ==
    IF Cardinality(seen) > 1 THEN {"MIXED_TYPES"}
    ELSE IF Cardinality(seen) = 0 THEN {"NO_TYPES"}
    ELSE IF "int" \in seen THEN {"INT"}
    ELSE IF "float" \in seen THEN {"FLOAT"}
    ELSE {"STRING"}

infer_type(an) ==
    IF an.num_rows = 0 THEN {"NO_DATA"}
    ELSE IF an.num_rows <= 2 THEN {"INSUFFICIENT_DATA"}
    ELSE KindTag(an.seen_types)
         \cup (IF an.num_null = 0 THEN {"NOT_NULL"} ELSE {"NULLABLE"})
         \cup (IF an.num_dupe = 0 THEN {"UNIQUE"} ELSE {})
         \cup (IF "int" \in an.seen_types
               THEN (IF an.num_negative = 0 THEN {"UNSIGNED"} ELSE {})
                    \cup (IF an.num_zero = 0 THEN {"NOT_ZERO"} ELSE {"HAS_ZERO"})
               ELSE {})

(***************************************************************************)
(* The collector on one CSV column: the reader appends the cells of the    *)
(* column row by row, generate_stats scans them, infer_type tags them.     *)
(***************************************************************************)
InitStats ==
    /\ pc = "read"
    /\ values = <<>>
    /\ stats = DbdColumnAnalysis
    /\ slots = <<>>
    /\ pool = {}
    /\ view = <<>>
    /\ data = <<>>
    /\ todo = <<>>
    /\ declared = <<>>
    /\ fkreferents = <<>>
    /\ builds = <<>>
    /\ lookup = <<>>
    /\ datadir = <<>>
    /\ rows = <<>>

\* the reader's data[k].append(row[k])
ReadRow ==
    /\ pc = "read"
    /\ Len(values) < MaxRows
    /\ \E cell \in Literals : values' = Append(values, cell)
    /\ UNCHANGED <<pc, stats, slots, pool, view, data, todo, declared, fkreferents, builds, lookup, datadir, rows>>

\* analysis = generate_stats(values)
GenerateStats ==
    /\ pc = "read"
    /\ stats' = generate_stats(values)
    /\ pc' = "stats"
    /\ UNCHANGED <<values, slots, pool, view, data, todo, declared, fkreferents, builds, lookup, datadir, rows>>

\* analysis.tags = infer_type(analysis)
InferType ==
    /\ pc = "stats"
    /\ stats' = [stats EXCEPT !.tags = infer_type(stats)]
    /\ pc' = "tagged"
    /\ UNCHANGED <<values, slots, pool, view, data, todo, declared, fkreferents, builds, lookup, datadir, rows>>

NextStats == ReadRow \/ GenerateStats \/ InferType

SpecStats == InitStats /\ [][NextStats]_vars

(***************************************************************************)
(* The merge operator on array slots: the collector scans three slot       *)
(* columns, and __add__ folds their records.  analyze_table folds in CSV   *)
(* order ((s1 + s2) + s3); Add folds any two partial sums in either order, *)
(* so every permutation and parenthesization of the fold is a behaviour.   *)
(***************************************************************************)
\* the raw columns a slot can hold: every sequence of at most MaxSlotRows cells
SlotColumns == UNION {[1..n -> SlotLiterals] : n \in 0..MaxSlotRows}

InitMerge ==
    /\ pc = "collect"
    /\ values = <<>>
    /\ stats = DbdColumnAnalysis
    /\ slots = <<>>
    /\ pool = {}
    /\ view = <<>>
    /\ data = <<>>
    /\ todo = <<>>
    /\ declared = <<>>
    /\ fkreferents = <<>>
    /\ builds = <<>>
    /\ lookup = <<>>
    /\ datadir = <<>>
    /\ rows = <<>>

\* analysis = generate_stats(values), for the next slot column of the CSV
CollectSlot ==
    /\ pc = "collect"
    /\ \E column \in SlotColumns :
          LET analysis == generate_stats(column)
              i == Len(slots) + 1
          IN /\ slots' = Append(slots, analysis)
             /\ pool' = pool \cup {[ids |-> {i}, rec |-> analysis]}
             /\ pc' = IF i = 3 THEN "fold" ELSE "collect"
    /\ UNCHANGED <<values, stats, view, data, todo, declared, fkreferents, builds, lookup, datadir, rows>>

\* table_analysis[a_colname] += analysis, for any two partial sums x + y
Add ==
    /\ pc = "fold"
    /\ \E x \in pool : \E y \in pool \ {x} :
          pool' = (pool \ {x, y}) \cup {[ids |-> x.ids \cup y.ids, rec |-> __add__(x.rec, y.rec)]}
    /\ UNCHANGED <<pc, values, stats, slots, view, data, todo, declared, fkreferents, builds, lookup, datadir, rows>>

NextMerge == CollectSlot \/ Add

SpecMerge == InitMerge /\ [][NextMerge]_vars

\* the fold of analyze_table: the slots of `ids` summed left to right in CSV order
RECURSIVE FoldInOrder(_, _)
FoldInOrder(recs, ids) ==
    LET last == CHOOSE i \in ids : \A j \in ids : j <= i
    IN IF Cardinality(ids) = 1 THEN recs[last]
       ELSE __add__(FoldInOrder(recs, ids \ {last}), recs[last])

(***************************************************************************)
(* Column names and identifiers.  A column name is kept in two parts: its  *)
(* text before a trailing "[...]" and the text between the brackets ("" if *)
(* the name does not end with "]"), so "Flags[1]" is Slot("Flags", "1").   *)
(***************************************************************************)
Name(base) == [base |-> base, slot |-> ""]
Slot(base, index) == [base |-> base, slot |-> index]

DbdColumnId(table, column) == [table |-> table, column |-> column]

\* IGNORE_FK without Achievement.Faction
IGNORE_FK_OneEntry ==
    {DbdColumnId("LFGDungeons", Name("Faction"))}

IGNORE_FK ==
    {DbdColumnId("Achievement", Name("Faction")),
     DbdColumnId("LFGDungeons", Name("Faction"))}

\* analysis_colname with slot 0 kept with the other slots
analysis_colname_OneRecord(colname) ==
    IF colname.slot = "" THEN colname
    ELSE [colname EXCEPT !.slot = "x"]

\* the column name the analysis of `colname` is kept under
analysis_colname(colname) ==
    IF colname.slot = "" THEN colname
    ELSE IF colname.slot = "0" THEN colname
    ELSE [colname EXCEPT !.slot = "x"]

\* array_re.sub("", colname)
StripArray(colname) == [colname EXCEPT !.slot = ""]

\* AnalysisData.for_column: the key the record of `colid` is found under, NoFk if none
for_column_key(ad, colid) ==
    LET a_colname == analysis_colname(colid.column)
        a_colid == DbdColumnId(colid.table, a_colname)
        a_colid_arr == DbdColumnId(colid.table, [a_colname EXCEPT !.slot = "0"])
    IN IF a_colid \in DOMAIN ad THEN a_colid
       ELSE IF a_colname.slot = "" /\ a_colid_arr \in DOMAIN ad THEN a_colid_arr
       ELSE NoFk

has_column(ad, colid) == for_column_key(ad, colid) # NoFk
for_column(ad, colid) == ad[for_column_key(ad, colid)]

(***************************************************************************)
(* DbdVersionedCol, flattened with its DbdColumnDef, and the views.        *)
(***************************************************************************)
DbdVersionedCol(type, fk, is_unsigned, int_width) ==
    [type |-> type, fk |-> fk, annotation |-> {}, array_size |-> 0,
     int_width |-> int_width, is_unsigned |-> is_unsigned]

FactionID == DbdColumnId("Faction", Name("ID"))

\* sorted(view.keys()) and the order of the columns of a table
TableOrder == <<"Achievement", "Faction", "FactionTemplate", "FriendshipReputation", "Item">>
ColumnOrder == <<Name("ID"), Name("Faction"), Name("Name"), Name("Flags")>>

sorted_tables(v) == SelectSeq(TableOrder, LAMBDA t : t \in DOMAIN v)
columns_of(v, t) == SelectSeq(ColumnOrder, LAMBDA c : c \in DOMAIN v[t])

Decl(v, colid) == v[colid.table][colid.column]

AllColumnIds(v) == UNION {{DbdColumnId(t, c) : c \in DOMAIN v[t]} : t \in DOMAIN v}

\* get_fk_cols without the test that the referent exists
get_fk_cols_Unchecked(v) ==
    LET referers(ref) == {r \in AllColumnIds(v) : Decl(v, r).fk = ref}
        referents == {Decl(v, r).fk : r \in AllColumnIds(v)} \ {NoFk}
    IN [ref \in referents |-> referers(ref)]

\* FKReferents: referent -> the referers whose declaration points at it; a
\* referent is stored only if its table and column are in the view
get_fk_cols(v) ==
    LET referers(ref) == {r \in AllColumnIds(v) : Decl(v, r).fk = ref}
        referents == {ref \in AllColumnIds(v) : referers(ref) # {}}
    IN [ref \in referents |-> referers(ref)]

(***************************************************************************)
(* The FK graph of any small view: main() loads the view of a build and    *)
(* calls view.get_fk_cols().                                               *)
(***************************************************************************)
\* the foreign keys a declaration can carry: none, or one of three columns
GraphTargets ==
    {NoFk, FactionID, DbdColumnId("FactionTemplate", Name("Faction")),
     DbdColumnId("FriendshipReputation", Name("ID"))}

\* the tables a view can hold: one to three columns-by-name maps of int columns
GraphTableDecls ==
    UNION {[names -> {DbdVersionedCol("int", fk, TRUE, 32) : fk \in GraphTargets}] :
           names \in (SUBSET {Name("ID"), Name("Faction")}) \ {{}}}

GraphViews ==
    UNION {[tables -> GraphTableDecls] :
           tables \in (SUBSET {"Faction", "FactionTemplate", "FriendshipReputation"}) \ {{}}}

InitGraph ==
    /\ pc = "view"
    /\ values = <<>>
    /\ stats = DbdColumnAnalysis
    /\ slots = <<>>
    /\ pool = {}
    /\ view \in GraphViews
    /\ data = <<>>
    /\ todo = <<>>
    /\ declared = view
    /\ fkreferents = <<>>
    /\ builds = <<>>
    /\ lookup = <<>>
    /\ datadir = <<>>
    /\ rows = <<>>

\* fkcols = view.get_fk_cols()
GetFkCols ==
    /\ pc = "view"
    /\ fkreferents' = get_fk_cols(view)
    /\ pc' = "graph"
    /\ UNCHANGED <<values, stats, slots, pool, view, data, todo, declared, builds, lookup, datadir, rows>>

NextGraph == GetFkCols

SpecGraph == InitGraph /\ [][NextGraph]_vars

(***************************************************************************)
(* compare_data.  fkcols is keyed by DbdColumnId and the code looks the    *)
(* string "table.column" up in it, which no key equals.                    *)
(***************************************************************************)
StrInFkcols(tablename, colname, fkcols) == FALSE

compare_data(tablename, colname, analysis, coldata, fkcols) ==
    LET is_text == coldata.type = "string" \/ coldata.type = "locstring"
        possible_key ==
            /\ "UNIQUE" \in analysis.tags
            /\ "id" \notin coldata.annotation
            /\ ~StrInFkcols(tablename, colname, fkcols)
    IN (IF StrInFkcols(tablename, colname, fkcols) THEN {"REFERENT"} ELSE {})
       \cup (IF coldata.type = "int" /\ "INT" \notin analysis.tags
             THEN {"TYPE_SHOULD_BE_INT"} ELSE {})
       \cup (IF (coldata.type = "int" \/ is_text) /\ possible_key
             THEN {"POSSIBLE_KEY"} ELSE {})
       \cup (IF coldata.type = "int" /\ "UNSIGNED" \in analysis.tags /\ ~coldata.is_unsigned
             THEN {"POSSIBLE_UNSIGNED"} ELSE {})
       \cup (IF coldata.type = "int" /\ "UNSIGNED" \notin analysis.tags /\ coldata.is_unsigned
             THEN {"POSSIBLE_SIGNED"} ELSE {})
       \cup (IF coldata.type = "float" /\ "FLOAT" \notin analysis.tags
             THEN {"SHOULD_BE_FLOAT"} ELSE {})
       \cup (IF is_text /\ "STRING" \notin analysis.tags
             THEN {"SHOULD_BE_STRING"} ELSE {})

(***************************************************************************)
(* analyze_table                                                           *)
(***************************************************************************)
\* the file of a table that has no CSV
NoFile == [header |-> <<>>, cols |-> <<>>, exists |-> FALSE]

\* print_missing: a record made from the declaration alone
MissingAnalysis(coldata) ==
    [DbdColumnAnalysis EXCEPT
       !.tags = {"NO_TABLE"}
                \cup (IF coldata.type = "int" THEN {"INT"}
                      ELSE IF coldata.type = "float" THEN {"FLOAT"}
                      ELSE IF coldata.type = "string" \/ coldata.type = "locstring"
                           THEN {"STRING"} ELSE {}),
       !.issues = {"NO_TABLE"},
       !.fk = coldata.fk]

print_missing(ad, tablename, v) ==
    LET new == {DbdColumnId(tablename, c) : c \in DOMAIN v[tablename]}
    IN [k \in DOMAIN ad \cup new |->
          IF k \in new THEN MissingAnalysis(v[tablename][k.column]) ELSE ad[k]]

\* lines 432-442: the records of the CSV columns, folded by analysis column name
RECURSIVE CollectTable(_, _, _)
CollectTable(table_analysis, header, cols) ==
    IF header = <<>> THEN table_analysis
    ELSE LET a_colname == analysis_colname(Head(header))
             analysis == generate_stats(Head(cols))
             folded == IF a_colname \in DOMAIN table_analysis
                       THEN __add__(table_analysis[a_colname], analysis)
                       ELSE analysis
         IN CollectTable(
                [k \in DOMAIN table_analysis \cup {a_colname} |->
                    IF k = a_colname THEN folded ELSE table_analysis[k]],
                Tail(header), Tail(cols))

\* lines 465-470: a single negative literal close to zero is a null marker
\* NegIsNull with -1 as the only sentinel
NegIsNull_OnlyMinusOne(analysis) ==
    /\ "int" \in analysis.seen_types
    /\ analysis.num_neg_vals = 1
    /\ Ge(analysis.val_min, PyInt(-1))

NegIsNull(analysis) ==
    /\ "int" \in analysis.seen_types
    /\ analysis.num_neg_vals = 1
    /\ Ge(analysis.val_min, PyInt(-2))

\* lines 445-477: the tags, foreign key and issues of one analysis column
LearnColumn(analysis, tablename, a_colname, v, fkcols) ==
    LET tagged == [analysis EXCEPT !.tags = infer_type(analysis)]
        colid == DbdColumnId(tablename, a_colname)
        b_colname == StripArray(a_colname)
    IN IF tablename \in DOMAIN v /\ b_colname \in DOMAIN v[tablename]
       THEN LET coldata == v[tablename][b_colname]
                with_fk ==
                    IF coldata.fk = NoFk THEN tagged
                    ELSE IF colid \in IGNORE_FK
                    THEN [tagged EXCEPT !.fk = coldata.fk, !.tags = @ \cup {"IGNORE_FK"}]
                    ELSE IF NegIsNull(tagged)
                    THEN [tagged EXCEPT
                            !.fk = coldata.fk,
                            !.tags = (@ \ {"NOT_NULL"}) \cup {"NEG_IS_NULL", "UNSIGNED"}]
                    ELSE [tagged EXCEPT !.fk = coldata.fk]
            IN [with_fk EXCEPT
                  !.issues = compare_data(tablename, b_colname, with_fk, coldata, fkcols)]
       ELSE [tagged EXCEPT !.issues = {"N", "O", "_", "D", "B", "I", "F"}]

analyze_table(ad, file, tablename, v, fkcols) ==
    IF ~file.exists THEN print_missing(ad, tablename, v)
    ELSE LET \* the reader makes data[k] when it reads a row: no row, no column
             read == IF \A i \in 1..Len(file.cols) : file.cols[i] = <<>> THEN <<>> ELSE file.header
             table_analysis == CollectTable(<<>>, read, file.cols)
             new == {DbdColumnId(tablename, c) : c \in DOMAIN table_analysis}
         IN [k \in DOMAIN ad \cup new |->
               IF k \in new
               THEN LearnColumn(table_analysis[k.column], tablename, k.column, v, fkcols)
               ELSE ad[k]]

(***************************************************************************)
(* analyze_fk_nulls                                                        *)
(***************************************************************************)
\* the referer's zeros stand for "no reference"
\* ZeroIsNull without the test of the referent's own zeros
ZeroIsNull_AnyReferent(ad, referer_analysis) ==
    /\ referer_analysis.fk # NoFk
    /\ "IGNORE_FK" \notin referer_analysis.tags
    /\ has_column(ad, referer_analysis.fk)
    /\ "int" \in for_column(ad, referer_analysis.fk).seen_types
    /\ referer_analysis.num_zero # 0

ZeroIsNull(ad, referer_analysis) ==
    /\ referer_analysis.fk # NoFk
    /\ "IGNORE_FK" \notin referer_analysis.tags
    /\ has_column(ad, referer_analysis.fk)
    /\ "int" \in for_column(ad, referer_analysis.fk).seen_types
    /\ ~(for_column(ad, referer_analysis.fk).num_zero > 0)
    /\ referer_analysis.num_zero # 0

\* analyze_fk_nulls with the tag set assigned, not added to
analyze_fk_nulls_TagsReplaced(ad) ==
    [k \in DOMAIN ad |->
        IF ZeroIsNull(ad, ad[k])
        THEN [ad[k] EXCEPT !.tags = {"ZERO_IS_NULL"}]
        ELSE ad[k]]

analyze_fk_nulls(ad) ==
    [k \in DOMAIN ad |->
        IF ZeroIsNull(ad, ad[k])
        THEN [ad[k] EXCEPT !.tags = (@ \ {"NOT_NULL"}) \cup {"ZERO_IS_NULL"}]
        ELSE ad[k]]

(***************************************************************************)
(* The analyzer's driver: main() of dbdanalyze visits the tables of the    *)
(* view in sorted order, then runs analyze_fk_nulls over all the records.  *)
(***************************************************************************)
\* the cells a table's CSV column is read from
TableLiterals == {"", "0", "1", "-1", "-2", "-3", "2.5"}

\* the header of the CSV file of a table
CsvHeader ==
    ("Achievement" :> <<Name("Faction")>>) @@ ("Faction" :> <<Name("ID")>>) @@
    ("FactionTemplate" :> <<Name("Faction")>>) @@
    ("FriendshipReputation" :> <<Name("Faction")>>)

\* the CSV files a table can have: none, or its header with equally long columns
CsvFiles(tablename, literals, maxrows) ==
    {NoFile} \cup
    {[header |-> CsvHeader[tablename], cols |-> cols, exists |-> TRUE] :
        cols \in UNION {[1..Len(CsvHeader[tablename]) -> [1..n -> literals]] : n \in 0..maxrows}}

FactionDecl == DbdVersionedCol("int", NoFk, TRUE, 32)
RefererDecl == DbdVersionedCol("int", FactionID, FALSE, 16)

\* the views the analyzer is run on: an ignore-listed referer, a referer, a
\* referer whose referent table is not in the view, a CSV column with no declaration
AnalyzerViews ==
    {("Achievement" :> (Name("Faction") :> RefererDecl)) @@ ("Faction" :> (Name("ID") :> FactionDecl)),
     ("Faction" :> (Name("ID") :> FactionDecl)) @@ ("FactionTemplate" :> (Name("Faction") :> RefererDecl)),
     ("FactionTemplate" :> (Name("Faction") :> RefererDecl)),
     ("Faction" :> (Name("ID") :> FactionDecl))
        @@ ("FactionTemplate" :> (Name("Name") :> DbdVersionedCol("string", NoFk, TRUE, 0)))}

InitAnalyze ==
    /\ pc = "analyze"
    /\ values = <<>>
    /\ stats = DbdColumnAnalysis
    /\ slots = <<>>
    /\ pool = {}
    /\ view \in AnalyzerViews
    /\ data = <<>>
    /\ todo = sorted_tables(view)
    /\ declared = view
    /\ fkreferents = get_fk_cols(view)
    /\ builds = <<>>
    /\ lookup = <<>>
    /\ datadir = <<>>
    /\ rows = <<>>

\* analyze_table(ad, args.datadir, tablename, view, fkcols)
AnalyzeTable ==
    /\ pc = "analyze"
    /\ todo # <<>>
    /\ \E file \in CsvFiles(Head(todo), TableLiterals, MaxTableRows) :
          data' = analyze_table(data, file, Head(todo), view, fkreferents)
    /\ todo' = Tail(todo)
    /\ UNCHANGED <<pc, values, stats, slots, pool, view, declared, fkreferents, builds, lookup, datadir, rows>>

\* analyze_fk_nulls(data)
AnalyzeFkNulls ==
    /\ pc = "analyze"
    /\ todo = <<>>
    /\ data' = analyze_fk_nulls(data)
    /\ pc' = "done"
    /\ UNCHANGED <<values, stats, slots, pool, view, todo, declared, fkreferents, builds, lookup, datadir, rows>>

NextAnalyze == AnalyzeTable \/ AnalyzeFkNulls

SpecAnalyze == InitAnalyze /\ [][NextAnalyze]_vars

(***************************************************************************)
(* The analyzer on a table with an array column: Item declares Flags as an *)
(* array of 3, which the CSV holds as the columns Flags[0], Flags[1] and   *)
(* Flags[2].                                                               *)
(***************************************************************************)
\* the cells of the array columns
ArrayLiterals == {"", "1", "-1", "2.5"}

ArrayHeader == <<Slot("Flags", "0"), Slot("Flags", "1"), Slot("Flags", "2")>>

ArrayView ==
    ("Item" :> (Name("Flags") :>
        [DbdVersionedCol("int", NoFk, FALSE, 32) EXCEPT !.array_size = Len(ArrayHeader)]))

\* the CSV files of Item: none, or the three slot columns with equally many rows
ArrayFiles ==
    {NoFile} \cup
    {[header |-> ArrayHeader, cols |-> cols, exists |-> TRUE] :
        cols \in UNION {[1..Len(ArrayHeader) -> [1..n -> ArrayLiterals]] : n \in 0..MaxArrayRows}}

InitArray ==
    /\ pc = "analyze"
    /\ values = <<>>
    /\ stats = DbdColumnAnalysis
    /\ slots = <<>>
    /\ pool = {}
    /\ view = ArrayView
    /\ data = <<>>
    /\ todo = sorted_tables(view)
    /\ declared = view
    /\ fkreferents = get_fk_cols(view)
    /\ builds = <<>>
    /\ lookup = <<>>
    /\ datadir = <<>>
    /\ rows = <<>>

\* analyze_table(ad, args.datadir, "Item", view, fkcols); `slots` keeps what
\* generate_stats gives for each CSV column of the file
AnalyzeArrayTable ==
    /\ pc = "analyze"
    /\ todo # <<>>
    /\ \E file \in ArrayFiles :
          /\ data' = analyze_table(data, file, Head(todo), view, fkreferents)
          /\ slots' = [i \in 1..Len(file.cols) |-> generate_stats(file.cols[i])]
    /\ todo' = Tail(todo)
    /\ UNCHANGED <<pc, values, stats, pool, view, declared, fkreferents, builds, lookup, datadir, rows>>

NextArray == AnalyzeArrayTable \/ AnalyzeFkNulls

SpecArray == InitArray /\ [][NextArray]_vars

(***************************************************************************)
(* load_analysis: dbd_to_mysql reads the records back from the CSV that    *)
(* print_analysis wrote.  The kinds seen are not in the file; an empty tag *)
(* or issue column reads back as the set holding the empty string.         *)
(***************************************************************************)
from_dict(d) ==
    [d EXCEPT
       !.seen_types = {},
       !.tags = IF @ = {} THEN {""} ELSE @,
       !.issues = IF @ = {} THEN {""} ELSE @]

load_analysis(ad) == [k \in DOMAIN ad |-> from_dict(ad[k])]

(***************************************************************************)
(* fk_fixup                                                                *)
(***************************************************************************)
\* CTD(type, is_unsigned, int_width) of a declaration
CTD(coldata) ==
    [type |-> coldata.type, is_unsigned |-> coldata.is_unsigned,
     int_width |-> coldata.int_width]

\* MaxOf with the comparison turned around
MaxOf_Least(S) == CHOOSE m \in S : \A n \in S : m <= n

\* refs_maxbits = max(refs_maxbits, referer_coldata.int_width)
MaxOf(S) == CHOOSE m \in S : \A n \in S : n <= m

\* analysis_check_unsigned with the test of num_negative turned around
analysis_check_unsigned_Inverted(ad, columns) ==
    \A col \in columns : has_column(ad, col) => for_column(ad, col).num_negative # 0

\* analysis_check_unsigned: no analyzed column of `columns` has a negative row
analysis_check_unsigned(ad, columns) ==
    \A col \in columns : has_column(ad, col) => for_column(ad, col).num_negative = 0

\* the referers the survey of lines 121-157 counts: analyzed and not IGNORE_FK
CountedReferers(ad, referers) ==
    {r \in referers : has_column(ad, r) /\ "IGNORE_FK" \notin for_column(ad, r).tags}

\* TaggedUnsigned with the sentinel tag as the only evidence
TaggedUnsigned_SentinelOnly(ad, r) ==
    "NEG_IS_NULL" \in for_column(ad, r).tags

\* line 139: the referer's data says unsigned
TaggedUnsigned(ad, r) ==
    "UNSIGNED" \in for_column(ad, r).tags \/ "NEG_IS_NULL" \in for_column(ad, r).tags

\* Surveyed with every column of a counted referer's table overwritten
Surveyed_WholeTable(v, ad, referers) ==
    [t \in DOMAIN v |-> [c \in DOMAIN v[t] |->
        IF \E r \in CountedReferers(ad, referers) : r.table = t
        THEN [v[t][c] EXCEPT
                !.is_unsigned =
                    \E r \in CountedReferers(ad, referers) :
                        r.table = t /\ TaggedUnsigned(ad, r)]
        ELSE v[t][c]]]

\* the declarations after the survey: each counted referer's is_unsigned is
\* overwritten from its tags
Surveyed(v, ad, referers) ==
    [t \in DOMAIN v |-> [c \in DOMAIN v[t] |->
        IF DbdColumnId(t, c) \in CountedReferers(ad, referers)
        THEN [v[t][c] EXCEPT !.is_unsigned = TaggedUnsigned(ad, DbdColumnId(t, c))]
        ELSE v[t][c]]]

\* the rule the reconciler applies to a referent
FixupRule(v, ad, fkcols, referent_col) ==
    IF referent_col \notin DOMAIN fkcols THEN "none"
    ELSE LET referers == fkcols[referent_col]
             counted == CountedReferers(ad, referers)
             surveyed == Surveyed(v, ad, referers)
             referent_type == CTD(Decl(v, referent_col))
             mismatches == {r \in counted : referent_type # CTD(Decl(surveyed, r))}
             refs_unsigned == Cardinality({r \in counted : TaggedUnsigned(ad, r)})
             refs_signed == Cardinality({r \in counted : ~TaggedUnsigned(ad, r)})
         IN IF mismatches = {} THEN "agree"
            ELSE IF refs_signed > 0 /\ refs_unsigned = 0 THEN "signed"
            ELSE IF refs_unsigned > 0 /\ refs_signed = 0 THEN "unsigned"
            ELSE IF analysis_check_unsigned(ad, referers) THEN "analysis"
            ELSE "mismatch"

\* one iteration of the loop of fk_fixup_inner over the columns of a table
FixupColumn(v, ad, fkcols, referent_col) ==
    IF referent_col \notin DOMAIN fkcols THEN v
    ELSE LET referers == fkcols[referent_col]
             counted == CountedReferers(ad, referers)
             surveyed == Surveyed(v, ad, referers)
             refs_maxbits ==
                 MaxOf({Decl(v, referent_col).int_width}
                       \cup {Decl(v, r).int_width : r \in counted})
             rule == FixupRule(v, ad, fkcols, referent_col)
             \* column_data.is_unsigned = ..., column_data.int_width = refs_maxbits
             referent_set(unsigned) ==
                 [surveyed EXCEPT
                    ![referent_col.table][referent_col.column] =
                        [@ EXCEPT !.is_unsigned = unsigned, !.int_width = refs_maxbits]]
             \* referer_coldata.int_width = refs_maxbits, for every referer
             widened(w) ==
                 [t \in DOMAIN w |-> [c \in DOMAIN w[t] |->
                     IF DbdColumnId(t, c) \in referers
                     THEN [w[t][c] EXCEPT !.int_width = refs_maxbits]
                     ELSE w[t][c]]]
             \* referer_coldata.is_unsigned = True, for every referer
             forced(w) ==
                 [t \in DOMAIN w |-> [c \in DOMAIN w[t] |->
                     IF DbdColumnId(t, c) \in referers
                     THEN [w[t][c] EXCEPT !.is_unsigned = TRUE]
                     ELSE w[t][c]]]
         IN CASE rule = "signed" -> widened(referent_set(FALSE))
              [] rule = "unsigned" -> widened(referent_set(TRUE))
              [] rule = "analysis" -> forced(widened(referent_set(TRUE)))
              [] OTHER -> surveyed

RECURSIVE FixupColumns(_, _, _, _, _)
FixupColumns(v, ad, fkcols, tablename, columns) ==
    IF columns = <<>> THEN v
    ELSE FixupColumns(FixupColumn(v, ad, fkcols, DbdColumnId(tablename, Head(columns))),
                      ad, fkcols, tablename, Tail(columns))

fk_fixup_inner(tablename, v, fkcols, ad) ==
    FixupColumns(v, ad, fkcols, tablename, columns_of(v, tablename))

(***************************************************************************)
(* The reconciler's driver: main() of dbd_to_mysql loads the view, builds  *)
(* the FK graph, loads the analysis that dbdanalyze wrote for the same     *)
(* view, and fk_fixup walks the tables in the order the view holds them.   *)
(***************************************************************************)
\* the cells a referer's CSV column is read from
FixupLiterals == {"1", "-1", "-3"}
\* the integer widths a declaration can have
FixupWidths == {16, 32}

\* what dbdanalyze writes for a view, given the CSV file of each table
RECURSIVE RunAnalyzer(_, _, _, _)
RunAnalyzer(ad, tables, v, files) ==
    IF tables = <<>> THEN analyze_fk_nulls(ad)
    ELSE RunAnalyzer(analyze_table(ad, files[Head(tables)], Head(tables), v, get_fk_cols(v)),
                     Tail(tables), v, files)

\* a star: the referent Faction.ID and the referers of `names`, declared int
StarViews(names) ==
    {[t \in {"Faction"} \cup names |->
        IF t = "Faction"
        THEN (Name("ID") :> DbdVersionedCol("int", NoFk, sign[t], width[t]))
        ELSE (Name("Faction") :> DbdVersionedCol("int", FactionID, sign[t], width[t]))] :
     sign \in [{"Faction"} \cup names -> BOOLEAN],
     width \in [{"Faction"} \cup names -> FixupWidths]}

\* the CSV file of the referent's table: a single row
ReferentFiles == {f \in CsvFiles("Faction", {"1"}, 1) : f # NoFile /\ f.cols # <<<<>>>>}

Repeat(x, n) == [i \in 1..n |-> x]

\* the CSV file of a referer's table of the view: absent, or up to
\* MaxFixupRows rows in ascending order of the key (generate_stats counts the
\* values of a column, so the order of NaN-free rows does not change its record)
RefererFiles(v, tablename) ==
    IF tablename \in DOMAIN v
    THEN {f \in CsvFiles(tablename, FixupLiterals, MaxFixupRows) :
             f = NoFile \/ \E a \in 0..MaxFixupRows, b \in 0..MaxFixupRows, c \in 0..MaxFixupRows :
                               f.cols[1] = Repeat("-3", a) \o Repeat("-1", b) \o Repeat("1", c)}
    ELSE {NoFile}

InitFixup ==
    /\ pc = "fixup"
    /\ values = <<>>
    /\ stats = DbdColumnAnalysis
    /\ slots = <<>>
    /\ pool = {}
    /\ view \in StarViews({"FactionTemplate"})
                \cup StarViews({"FactionTemplate", "FriendshipReputation"})
    /\ declared = view
    /\ fkreferents = get_fk_cols(view)
    /\ builds = <<>>
    /\ lookup = <<>>
    /\ datadir = <<>>
    /\ rows = <<>>
    /\ \E f0 \in ReferentFiles, f1 \in RefererFiles(view, "FactionTemplate"),
          f2 \in RefererFiles(view, "FriendshipReputation") :
          LET files == ("Faction" :> f0) @@ ("FactionTemplate" :> f1)
                       @@ ("FriendshipReputation" :> f2)
          IN data = load_analysis(RunAnalyzer(<<>>, sorted_tables(view), view, files))
    /\ todo = DOMAIN view

\* fk_fixup_inner(table_name, table_data, view, fkcols, analysis), for the
\* next table of view.items(); the view holds its tables in any order
FkFixupInner ==
    /\ pc = "fixup"
    /\ \E table_name \in todo :
          /\ view' = fk_fixup_inner(table_name, view, fkreferents, data)
          /\ todo' = todo \ {table_name}
    /\ UNCHANGED <<pc, values, stats, slots, pool, data, declared, fkreferents, builds, lookup, datadir, rows>>

\* fk_fixup returns when every table was visited
FkFixupReturn ==
    /\ pc = "fixup"
    /\ todo = {}
    /\ pc' = "done"
    /\ UNCHANGED <<values, stats, slots, pool, view, data, todo, declared, fkreferents, builds, lookup, datadir, rows>>

NextFixup == FkFixupInner \/ FkFixupReturn

SpecFixup == InitFixup /\ [][NextFixup]_vars

(***************************************************************************)
(* The reconciler on a star with an ignore-listed referer: Achievement's   *)
(* Faction column is in IGNORE_FK, FactionTemplate also declares a Name    *)
(* column that no foreign key touches.                                     *)
(***************************************************************************)
\* the referent Faction.ID, the ignore-listed referer Achievement.Faction, and
\* the referers of `names` declared 16 bits wide
MixedStarViews(names) ==
    {[t \in {"Faction", "Achievement"} \cup names |->
        IF t = "Faction"
        THEN (Name("ID") :> DbdVersionedCol("int", NoFk, sign[t], width[t]))
        ELSE IF t = "Achievement"
        THEN (Name("Faction") :> DbdVersionedCol("int", FactionID, sign[t], width[t]))
        ELSE (Name("Faction") :> DbdVersionedCol("int", FactionID, sign[t], 16))
             @@ (Name("Name") :> DbdVersionedCol("string", NoFk, TRUE, 0))] :
     sign \in [{"Faction", "Achievement"} \cup names -> BOOLEAN],
     width \in [{"Faction", "Achievement"} -> FixupWidths]}


\* the CSV file of another referer of the view: absent, or up to MaxFixupRows
\* rows without a negative
UnsignedFiles(v, tablename) ==
    {f \in RefererFiles(v, tablename) :
        f = NoFile \/ \A i \in 1..Len(f.cols[1]) : f.cols[1][i] = "1"}

InitFixupMixed ==
    /\ pc = "fixup"
    /\ values = <<>>
    /\ stats = DbdColumnAnalysis
    /\ slots = <<>>
    /\ pool = {}
    /\ view \in MixedStarViews({"FactionTemplate"})
                \cup MixedStarViews({"FactionTemplate", "FriendshipReputation"})
    /\ declared = view
    /\ fkreferents = get_fk_cols(view)
    /\ builds = <<>>
    /\ lookup = <<>>
    /\ datadir = <<>>
    /\ rows = <<>>
    /\ \E f0 \in ReferentFiles, f1 \in UnsignedFiles(view, "FactionTemplate"),
          f2 \in UnsignedFiles(view, "FriendshipReputation"), f3 \in CsvFiles("Achievement", {"1", "-3"}, 1) :
          LET files == ("Faction" :> f0) @@ ("FactionTemplate" :> f1)
                       @@ ("FriendshipReputation" :> f2) @@ ("Achievement" :> f3)
          IN data = load_analysis(RunAnalyzer(<<>>, sorted_tables(view), view, files))
    /\ todo = DOMAIN view

SpecFixupMixed == InitFixupMixed /\ [][NextFixup]_vars

(***************************************************************************)
(* The reconciler on a star with an array referer: Item.Flags is declared  *)
(* as an array with a foreign key to Faction.ID, and its CSV file has one  *)
(* column per slot.                                                        *)
(***************************************************************************)
SlotHeader == <<Slot("Flags", "0"), Slot("Flags", "1")>>

\* the CSV files of Item: none, or 1..MaxArrayRows rows of the two slot columns
SlotFiles ==
    {NoFile} \cup
    {[header |-> SlotHeader, cols |-> cols, exists |-> TRUE] :
        cols \in UNION {[1..Len(SlotHeader) -> [1..n -> {"1", "-3"}]] : n \in 1..MaxArrayRows}}

\* the referent Faction.ID, the referer FactionTemplate.Faction and the array
\* referer Item.Flags, each declared signed or unsigned
ArrayStarViews ==
    {("Faction" :> (Name("ID") :> DbdVersionedCol("int", NoFk, sign["Faction"], 32)))
     @@ ("FactionTemplate" :>
            (Name("Faction") :> DbdVersionedCol("int", FactionID, sign["FactionTemplate"], 32)))
     @@ ("Item" :>
            (Name("Flags") :>
                [DbdVersionedCol("int", FactionID, sign["Item"], 32)
                    EXCEPT !.array_size = Len(SlotHeader)])) :
     sign \in [{"Faction", "FactionTemplate", "Item"} -> BOOLEAN]}

InitFixupArray ==
    /\ pc = "fixup"
    /\ values = <<>>
    /\ stats = DbdColumnAnalysis
    /\ slots = <<>>
    /\ pool = {}
    /\ view \in ArrayStarViews
    /\ declared = view
    /\ fkreferents = get_fk_cols(view)
    /\ builds = <<>>
    /\ lookup = <<>>
    /\ datadir = <<>>
    /\ rows = <<>>
    /\ \E f0 \in ReferentFiles, f1 \in RefererFiles(view, "FactionTemplate"), f2 \in SlotFiles :
          LET files == ("Faction" :> f0) @@ ("FactionTemplate" :> f1) @@ ("Item" :> f2)
          IN data = load_analysis(RunAnalyzer(<<>>, sorted_tables(view), view, files))
    /\ todo = DOMAIN view

SpecFixupArray == InitFixupArray /\ [][NextFixup]_vars


(***************************************************************************)
(* fk_fixup_inner on one referent, statement by statement: the survey loop *)
(* and the writing loops visit the referers in the order the FK graph      *)
(* holds them (fkcols[referent_col].items()).                              *)
(***************************************************************************)
\* SurveyStep with refs_maxbits assigned the referer's width, not the maximum
SurveyStep_LastWidth(s, ad, referent_type, referer_col) ==
    IF ~has_column(ad, referer_col) THEN s
    ELSE IF "IGNORE_FK" \in for_column(ad, referer_col).tags THEN s
    ELSE LET unsigned == TaggedUnsigned(ad, referer_col)
             v1 == [s.v EXCEPT ![referer_col.table][referer_col.column].is_unsigned = unsigned]
         IN [v |-> v1,
             refs_unsigned |-> IF unsigned THEN s.refs_unsigned + 1 ELSE s.refs_unsigned,
             refs_signed |-> IF unsigned THEN s.refs_signed ELSE s.refs_signed + 1,
             refs_maxbits |-> Decl(v1, referer_col).int_width,
             mismatches |-> IF referent_type # CTD(Decl(v1, referer_col))
                            THEN Append(s.mismatches, referer_col) ELSE s.mismatches]

\* lines 121-157: one iteration of the survey loop
SurveyStep(s, ad, referent_type, referer_col) ==
    IF ~has_column(ad, referer_col) THEN s
    ELSE IF "IGNORE_FK" \in for_column(ad, referer_col).tags THEN s
    ELSE LET unsigned == TaggedUnsigned(ad, referer_col)
             v1 == [s.v EXCEPT ![referer_col.table][referer_col.column].is_unsigned = unsigned]
         IN [v |-> v1,
             refs_unsigned |-> IF unsigned THEN s.refs_unsigned + 1 ELSE s.refs_unsigned,
             refs_signed |-> IF unsigned THEN s.refs_signed ELSE s.refs_signed + 1,
             refs_maxbits |-> IF Decl(v1, referer_col).int_width > s.refs_maxbits
                              THEN Decl(v1, referer_col).int_width ELSE s.refs_maxbits,
             mismatches |-> IF referent_type # CTD(Decl(v1, referer_col))
                            THEN Append(s.mismatches, referer_col) ELSE s.mismatches]

RECURSIVE SurveyLoop(_, _, _, _)
SurveyLoop(s, ad, referent_type, order) ==
    IF order = <<>> THEN s
    ELSE SurveyLoop(SurveyStep(s, ad, referent_type, Head(order)), ad, referent_type, Tail(order))

\* the loops of lines 190-192, 204-206 and 219-222 over the referers
RECURSIVE WriteLoop(_, _, _, _)
WriteLoop(v, order, refs_maxbits, force_unsigned) ==
    IF order = <<>> THEN v
    ELSE LET r == Head(order)
             v1 == [v EXCEPT ![r.table][r.column].int_width = refs_maxbits]
             v2 == IF force_unsigned
                   THEN [v1 EXCEPT ![r.table][r.column].is_unsigned = TRUE] ELSE v1
         IN WriteLoop(v2, Tail(order), refs_maxbits, force_unsigned)

\* lines 88-232 for one referent whose referers are visited in `order`: the
\* declarations it leaves and the branch it took
FixupColumnInOrder(v, ad, referent_col, order) ==
    LET referent_type == CTD(Decl(v, referent_col))
        start == [v |-> v, refs_unsigned |-> 0, refs_signed |-> 0,
                  refs_maxbits |-> Decl(v, referent_col).int_width, mismatches |-> <<>>]
        s == SurveyLoop(start, ad, referent_type, order)
        referent_set(unsigned) ==
            [s.v EXCEPT ![referent_col.table][referent_col.column] =
                [@ EXCEPT !.is_unsigned = unsigned, !.int_width = s.refs_maxbits]]
    IN IF Len(s.mismatches) = 0 THEN [v |-> s.v, rule |-> "agree"]
       ELSE IF s.refs_signed > 0 /\ s.refs_unsigned = 0
       THEN [v |-> WriteLoop(referent_set(FALSE), order, s.refs_maxbits, FALSE), rule |-> "signed"]
       ELSE IF s.refs_unsigned > 0 /\ s.refs_signed = 0
       THEN [v |-> WriteLoop(referent_set(TRUE), order, s.refs_maxbits, FALSE), rule |-> "unsigned"]
       ELSE IF analysis_check_unsigned(ad, Range(order))
       THEN [v |-> WriteLoop(referent_set(TRUE), order, s.refs_maxbits, TRUE), rule |-> "analysis"]
       ELSE [v |-> s.v, rule |-> "mismatch"]

\* the orders in which a dict can hold the keys S
Orders(S) == {order \in [1..Cardinality(S) -> S] : Range(order) = S}

\* the CSV file of a referer: absent, or MaxFixupRows rows of one literal
UniformFiles(tablename) ==
    {NoFile} \cup
    {[header |-> CsvHeader[tablename], cols |-> <<Repeat(x, MaxFixupRows)>>, exists |-> TRUE] :
        x \in FixupLiterals}

\* a star of three referers, one of them ignore-listed; the referent is
\* declared 16 bits wide
OrderViews ==
    {v \in StarViews({"Achievement", "FactionTemplate", "FriendshipReputation"}) :
        Decl(v, FactionID).int_width = 16}

InitFixupOrder ==
    /\ pc = "fixup"
    /\ values = <<>>
    /\ stats = DbdColumnAnalysis
    /\ slots = <<>>
    /\ pool = {}
    /\ view \in OrderViews
    /\ declared = view
    /\ fkreferents = get_fk_cols(view)
    /\ builds = <<>>
    /\ lookup = <<>>
    /\ datadir = <<>>
    /\ rows = <<>>
    /\ \E f0 \in ReferentFiles, f1 \in UniformFiles("FactionTemplate"),
          f2 \in UniformFiles("FriendshipReputation"), f3 \in CsvFiles("Achievement", {"1", "-3"}, 1) :
          LET files == ("Faction" :> f0) @@ ("FactionTemplate" :> f1)
                       @@ ("FriendshipReputation" :> f2) @@ ("Achievement" :> f3)
          IN data = load_analysis(RunAnalyzer(<<>>, sorted_tables(view), view, files))
    /\ todo = {"Faction"}

\* fk_fixup_inner("Faction", ...), the FK graph holding the referers of
\* Faction.ID in any order
FixupInOrder ==
    /\ pc = "fixup"
    /\ \E order \in Orders(fkreferents[FactionID]) :
          view' = FixupColumnInOrder(view, data, FactionID, order).v
    /\ todo' = {}
    /\ pc' = "stepped"
    /\ UNCHANGED <<values, stats, slots, pool, data, declared, fkreferents, builds, lookup, datadir, rows>>

NextFixupOrder == FixupInOrder

SpecFixupOrder == InitFixupOrder /\ [][NextFixupOrder]_vars


(***************************************************************************)
(* The reconciler on views with two referents: FactionTemplate has an ID   *)
(* column beside its referer Faction, and FriendshipReputation.Faction     *)
(* refers to Faction.ID (one star), to FactionTemplate.ID (two stars) or   *)
(* to FactionTemplate.Faction (a chain, whose middle column is a referer   *)
(* and a referent).                                                        *)
(***************************************************************************)
FactionTemplateID == DbdColumnId("FactionTemplate", Name("ID"))
FactionTemplateFaction == DbdColumnId("FactionTemplate", Name("Faction"))
FriendshipReputationFaction == DbdColumnId("FriendshipReputation", Name("Faction"))

ChainColumns == {FactionID, FactionTemplateID, FactionTemplateFaction, FriendshipReputationFaction}

ChainViews ==
    {("Faction" :> (Name("ID") :> DbdVersionedCol("int", NoFk, sign[FactionID], width[FactionID])))
     @@ ("FactionTemplate" :>
            ((Name("ID") :>
                DbdVersionedCol("int", NoFk, sign[FactionTemplateID], width[FactionTemplateID]))
             @@ (Name("Faction") :>
                DbdVersionedCol("int", FactionID, sign[FactionTemplateFaction],
                                width[FactionTemplateFaction]))))
     @@ ("FriendshipReputation" :>
            (Name("Faction") :>
                DbdVersionedCol("int", target, sign[FriendshipReputationFaction],
                                width[FriendshipReputationFaction]))) :
     sign \in [ChainColumns -> BOOLEAN], width \in [ChainColumns -> FixupWidths],
     target \in {FactionID, FactionTemplateID, FactionTemplateFaction}}

\* the CSV files of FactionTemplate: none, or MaxFixupRows rows with the ID 1
\* and one literal in the Faction column
TemplateFiles ==
    {NoFile} \cup
    {[header |-> <<Name("ID"), Name("Faction")>>,
      cols |-> <<Repeat("1", MaxFixupRows), Repeat(x, MaxFixupRows)>>, exists |-> TRUE] :
        x \in FixupLiterals}

InitFixupChain ==
    /\ pc = "fixup"
    /\ values = <<>>
    /\ stats = DbdColumnAnalysis
    /\ slots = <<>>
    /\ pool = {}
    /\ view \in ChainViews
    /\ declared = view
    /\ fkreferents = get_fk_cols(view)
    /\ builds = <<>>
    /\ lookup = <<>>
    /\ datadir = <<>>
    /\ rows = <<>>
    /\ \E f0 \in ReferentFiles, f1 \in TemplateFiles, f2 \in UniformFiles("FriendshipReputation") :
          LET files == ("Faction" :> f0) @@ ("FactionTemplate" :> f1)
                       @@ ("FriendshipReputation" :> f2)
          IN data = load_analysis(RunAnalyzer(<<>>, sorted_tables(view), view, files))
    /\ todo = DOMAIN view

SpecFixupChain == InitFixupChain /\ [][NextFixup]_vars

\* fk_fixup over the tables of the view in the order `tables`
\* a pass that stops after the first table of the view
fk_fixup_FirstTableOnly(v, fkcols, ad, tables) ==
    IF tables = <<>> THEN v ELSE fk_fixup_inner(Head(tables), v, fkcols, ad)

RECURSIVE fk_fixup(_, _, _, _)
fk_fixup(v, fkcols, ad, tables) ==
    IF tables = <<>> THEN v
    ELSE fk_fixup(fk_fixup_inner(Head(tables), v, fkcols, ad), fkcols, ad, Tail(tables))


(***************************************************************************)
(* fk_fixup repeated: the view holds its tables in one order, `todo`, and  *)
(* every pass walks them in that order over the declarations the pass      *)
(* before left.                                                            *)
(***************************************************************************)
\* the chain views the passes are repeated on: FactionTemplate.ID is declared
\* a signed 16 bit integer, the two Faction columns of the referers are
\* declared 16 bits wide; the signs of the other columns, the width of
\* Faction.ID and the target of FriendshipReputation.Faction are free.  The
\* view holds its tables in the order of the directory listing, here the
\* alphabetical one or its reverse.
InitFixupRepeat ==
    /\ pc = "fixup"
    /\ values = <<>>
    /\ stats = DbdColumnAnalysis
    /\ slots = <<>>
    /\ pool = {}
    /\ view \in ChainViews
    /\ ~Decl(view, FactionTemplateID).is_unsigned
    /\ Decl(view, FactionTemplateID).int_width = 16
    /\ Decl(view, FactionTemplateFaction).int_width = 16
    /\ Decl(view, FriendshipReputationFaction).int_width = 16
    /\ declared = view
    /\ fkreferents = get_fk_cols(view)
    /\ builds = <<>>
    /\ lookup = <<>>
    /\ datadir = <<>>
    /\ rows = <<>>
    /\ \E f0 \in ReferentFiles, f1 \in TemplateFiles, f2 \in UniformFiles("FriendshipReputation") :
          LET files == ("Faction" :> f0) @@ ("FactionTemplate" :> f1)
                       @@ ("FriendshipReputation" :> f2)
          IN data = load_analysis(RunAnalyzer(<<>>, sorted_tables(view), view, files))
    /\ todo \in {order \in Orders(DOMAIN view) : order[2] = "FactionTemplate"}

\* fk_fixup(view, fkcols, analysis), once more
FkFixupPass ==
    /\ pc = "fixup"
    /\ view' = fk_fixup(view, fkreferents, data, todo)
    /\ UNCHANGED <<pc, values, stats, slots, pool, data, todo, declared, fkreferents, builds, lookup, datadir, rows>>

NextFixupRepeat == FkFixupPass

SpecFixupRepeat == InitFixupRepeat /\ [][NextFixupRepeat]_vars /\ WF_vars(FkFixupPass)


(***************************************************************************)
(* DbdBuilds: the per-build column sets of one table, keyed by build       *)
(* range.  from_dbd stores one entry per build or build range of the       *)
(* definitions; the consumers then test and index the dict.                *)
(***************************************************************************)
MaxBuilds == 2

BuildId(major, minor, patch, build) ==
    [major |-> major, minor |-> minor, patch |-> patch, build |-> build]

build_compare(buildid1, buildid2) ==
    IF buildid1.major # buildid2.major THEN buildid1.major - buildid2.major
    ELSE IF buildid1.minor # buildid2.minor THEN buildid1.minor - buildid2.minor
    ELSE IF buildid1.patch # buildid2.patch THEN buildid1.patch - buildid2.patch
    ELSE buildid1.build - buildid2.build

\* BuildId.__le__
BuildId__le__(self, other) == build_compare(self, other) <= 0

BuildIdRange(min, max) == [min |-> min, max |-> max]

\* BuildIdRange.__contains__: self.min <= item <= self.max
BuildIdRange__contains__(self, item) ==
    BuildId__le__(self.min, item) /\ BuildId__le__(item, self.max)

IsBuildId(key) == "major" \in DOMAIN key
IsBuildIdRange(key) == "min" \in DOMAIN key

\* the positions of the dict's items whose range holds the build
Containing(d, key) == {i \in 1..Len(d) : BuildIdRange__contains__(d[i].key, key)}

\* DbdBuilds.__getitem__: the first item in insertion order whose range holds
\* the build; any other key falls through to the raise
DbdBuilds__getitem__(d, key) ==
    IF IsBuildId(key) /\ Containing(d, key) # {}
    THEN d[CHOOSE i \in Containing(d, key) : \A j \in Containing(d, key) : i <= j].value
    ELSE "KeyError"

\* DbdBuilds.__contains__
DbdBuilds__contains__(d, key) ==
    IF IsBuildIdRange(key) THEN \E i \in 1..Len(d) : d[i].key = key
    ELSE IF IsBuildId(key) THEN DbdBuilds__getitem__(d, key) # "KeyError"
    ELSE FALSE

\* UserDict.__setitem__: self.data[key] = item
DbdBuilds__setitem__(d, key, item) ==
    IF \E i \in 1..Len(d) : d[i].key = key
    THEN [i \in 1..Len(d) |-> IF d[i].key = key THEN [d[i] EXCEPT !.value = item] ELSE d[i]]
    ELSE Append(d, [key |-> key, value |-> item])

BuildIds == {BuildId(major, 0, 0, build) : major \in {1, 2}, build \in {1, 2}}
BuildRanges == {BuildIdRange(min, max) : min \in BuildIds, max \in BuildIds} \cap
               {r \in [min : BuildIds, max : BuildIds] : BuildId__le__(r.min, r.max)}

InitBuilds ==
    /\ pc = "from_dbd"
    /\ values = <<>>
    /\ stats = DbdColumnAnalysis
    /\ slots = <<>>
    /\ pool = {}
    /\ view = <<>>
    /\ data = <<>>
    /\ todo = <<>>
    /\ declared = <<>>
    /\ fkreferents = <<>>
    /\ builds = <<>>
    /\ lookup = <<>>
    /\ datadir = <<>>
    /\ rows = <<>>

\* dbd_builds[b] = c
SetItem ==
    /\ pc = "from_dbd"
    /\ \E b \in BuildRanges : \E c \in {"cols1", "cols2"} :
          /\ (\E i \in 1..Len(builds) : builds[i].key = b) \/ Len(builds) < MaxBuilds
          /\ builds' = DbdBuilds__setitem__(builds, b, c)
    /\ UNCHANGED <<pc, values, stats, slots, pool, view, data, todo, declared, fkreferents, lookup, datadir, rows>>

\* return dbd_builds
FromDbdReturn ==
    /\ pc = "from_dbd"
    /\ pc' = "built"
    /\ UNCHANGED <<values, stats, slots, pool, view, data, todo, declared, fkreferents, builds, lookup, datadir, rows>>

\* builds[key], with a build
GetItemBuild ==
    /\ pc \in {"built", "looked"}
    /\ \E key \in BuildIds :
          lookup' = [op |-> "getitem", key |-> key, result |-> DbdBuilds__getitem__(builds, key)]
    /\ pc' = "looked"
    /\ UNCHANGED <<values, stats, slots, pool, view, data, todo, declared, fkreferents, builds, datadir, rows>>

\* builds[key], with a build range
GetItemRange ==
    /\ pc \in {"built", "looked"}
    /\ \E key \in BuildRanges :
          lookup' = [op |-> "getitem", key |-> key, result |-> DbdBuilds__getitem__(builds, key)]
    /\ pc' = "looked"
    /\ UNCHANGED <<values, stats, slots, pool, view, data, todo, declared, fkreferents, builds, datadir, rows>>

\* key in builds, with a build
ContainsBuild ==
    /\ pc \in {"built", "looked"}
    /\ \E key \in BuildIds :
          lookup' = [op |-> "contains", key |-> key, result |-> DbdBuilds__contains__(builds, key)]
    /\ pc' = "looked"
    /\ UNCHANGED <<values, stats, slots, pool, view, data, todo, declared, fkreferents, builds, datadir, rows>>

\* key in builds, with a build range
ContainsRange ==
    /\ pc \in {"built", "looked"}
    /\ \E key \in BuildRanges :
          lookup' = [op |-> "contains", key |-> key, result |-> DbdBuilds__contains__(builds, key)]
    /\ pc' = "looked"
    /\ UNCHANGED <<values, stats, slots, pool, view, data, todo, declared, fkreferents, builds, datadir, rows>>

NextBuilds ==
    SetItem \/ FromDbdReturn \/ GetItemBuild \/ GetItemRange \/ ContainsBuild \/ ContainsRange

SpecBuilds == InitBuilds /\ [][NextBuilds]_vars


(***************************************************************************)
(* load.py: main() loads the analysis file, then hands load_one the CSV    *)
(* file of every table the analysis knows, in sorted order.  load_one      *)
(* builds the rows for insert_rows, with the sentinel cells of the tagged  *)
(* columns replaced by None.                                               *)
(***************************************************************************)
\* the largest number of rows of the CSV file load_one reads
MaxLoadRows == 2

\* a value of a row handed to insert_rows: None, or the cell as it was read
NullCell == [null |-> TRUE, v |-> ""]
Cell(v) == [null |-> FALSE, v |-> v]

\* lines 112-118: negnullcols (tag NEG_IS_NULL) and zeronullcols (tag ZERO_IS_NULL)
SentinelCols(ad, tablename, header, tag) ==
    {c \in Range(header) :
        LET colid == DbdColumnId(tablename, c)
        IN /\ has_column(ad, colid)
           /\ "IGNORE_FK" \notin for_column(ad, colid).tags
           /\ tag \in for_column(ad, colid).tags}

\* line 121: int(v) is evaluated for a cell of a column of either set
CellRaises(k, v, negnullcols, zeronullcols) ==
    (k \in negnullcols \/ k \in zeronullcols) /\ ~IntParses(v)

\* lines 121-122: the value of one cell
LoadCell(k, v, negnullcols, zeronullcols) ==
    IF \/ k \in negnullcols /\ IntTable[v] < 0
       \/ k \in zeronullcols /\ IntTable[v] = 0
    THEN NullCell ELSE Cell(v)

\* what load_one hands to insert_rows for a table, or the exception it raises
load_one(file, tablename, analysis) ==
    LET negnullcols == SentinelCols(analysis, tablename, file.header, "NEG_IS_NULL")
        zeronullcols == SentinelCols(analysis, tablename, file.header, "ZERO_IS_NULL")
        n == IF file.cols = <<>> THEN 0 ELSE Len(file.cols[1])
        at(c) == CHOOSE j \in 1..Len(file.header) : file.header[j] = c
        raises == \E i \in 1..n, j \in 1..Len(file.header) :
                      CellRaises(file.header[j], file.cols[j][i], negnullcols, zeronullcols)
    IN IF raises THEN [table |-> tablename, raised |-> "ValueError", rows |-> <<>>]
       ELSE [table |-> tablename, raised |-> "",
             rows |-> [i \in 1..n |->
                         [c \in Range(file.header) |->
                             LoadCell(c, file.cols[at(c)][i], negnullcols, zeronullcols)]]]

\* AnalysisData.tablenames
tablenames(ad) == {k.table : k \in DOMAIN ad}

\* main, lines 172 and 202-205: the analysis file is the one dbdanalyze wrote
\* for the same data directory.  The view of the run: the referent Faction.ID,
\* the referer FactionTemplate.Faction and the ignore-listed referer
\* Achievement.Faction; Faction has one row, with or without a zero key.
InitLoad ==
    /\ pc = "load"
    /\ values = <<>>
    /\ stats = DbdColumnAnalysis
    /\ slots = <<>>
    /\ pool = {}
    /\ view = ("Achievement" :> (Name("Faction") :> RefererDecl))
              @@ ("Faction" :> (Name("ID") :> FactionDecl))
              @@ ("FactionTemplate" :> (Name("Faction") :> RefererDecl))
    /\ declared = view
    /\ fkreferents = get_fk_cols(view)
    /\ builds = <<>>
    /\ lookup = <<>>
    /\ datadir \in
          {("Achievement" :> f0) @@ ("Faction" :> f1) @@ ("FactionTemplate" :> f2) :
              f0 \in CsvFiles("Achievement", {"-1"}, 1),
              f1 \in {f \in CsvFiles("Faction", {"0", "1"}, 1) : f # NoFile /\ f.cols # <<<<>>>>},
              f2 \in CsvFiles("FactionTemplate", {"", "0", "1", "-1", "-3", "0.0", "ab"},
                              MaxLoadRows)}
    /\ data = load_analysis(RunAnalyzer(<<>>, sorted_tables(view), view, datadir))
    /\ todo = SelectSeq(TableOrder, LAMBDA t : t \in tablenames(data))
    /\ rows = [table |-> "", raised |-> "", rows |-> <<>>]

\* lines 209-212: the table has a file, load_one returns its rows
LoadOne ==
    /\ pc = "load"
    /\ todo # <<>>
    /\ datadir[Head(todo)].exists
    /\ load_one(datadir[Head(todo)], Head(todo), data).raised = ""
    /\ rows' = load_one(datadir[Head(todo)], Head(todo), data)
    /\ todo' = Tail(todo)
    /\ UNCHANGED <<pc, values, stats, slots, pool, view, data, declared, fkreferents, builds,
                   lookup, datadir>>

\* lines 209-212: load_one raises, and nothing in main catches it
LoadOneRaises ==
    /\ pc = "load"
    /\ todo # <<>>
    /\ datadir[Head(todo)].exists
    /\ load_one(datadir[Head(todo)], Head(todo), data).raised # ""
    /\ rows' = load_one(datadir[Head(todo)], Head(todo), data)
    /\ pc' = "raised"
    /\ UNCHANGED <<values, stats, slots, pool, view, data, todo, declared, fkreferents, builds,
                   lookup, datadir>>

\* lines 213-214: WARNING: No file for the table
LoadNoFile ==
    /\ pc = "load"
    /\ todo # <<>>
    /\ ~datadir[Head(todo)].exists
    /\ todo' = Tail(todo)
    /\ UNCHANGED <<pc, values, stats, slots, pool, view, data, declared, fkreferents, builds,
                   lookup, datadir, rows>>

\* lines 216-220: DONE
LoadReturn ==
    /\ pc = "load"
    /\ todo = <<>>
    /\ pc' = "done"
    /\ UNCHANGED <<values, stats, slots, pool, view, data, todo, declared, fkreferents, builds, lookup, datadir, rows>>

NextLoad == LoadOne \/ LoadOneRaises \/ LoadNoFile \/ LoadReturn

SpecLoad == InitLoad /\ [][NextLoad]_vars


(***************************************************************************)
(* What the claims speak of, stated on the raw cells and not through the   *)
(* collector.                                                              *)
(***************************************************************************)
IntRows(column) == {i \in 1..Len(column) : IntParses(column[i])}
FloatOnlyRows(column) ==
    {i \in 1..Len(column) : ~IntParses(column[i]) /\ FloatParses(column[i])}
NullRows(column) == {i \in 1..Len(column) : column[i] = ""}
DistinctLiterals(column) == {column[i] : i \in 1..Len(column)} \ {""}

NumberOf(v) == IF IntParses(v) THEN PyInt(IntTable[v]) ELSE FloatTable[v]
Numbers(column) == {NumberOf(column[i]) : i \in IntRows(column) \cup FloatOnlyRows(column)}

\* two Optionals hold the same number (1 and 1.0 are the same number)
SameNumber(a, b) ==
    /\ a.some = b.some
    /\ a.some => (a.nan /\ b.nan) \/ NumEq(a, b)

\* m is the least / the greatest of the numbers N, None when there is none
IsMinimumOf(m, N) ==
    IF N = {} THEN ~m.some
    ELSE (\E n \in N : SameNumber(m, n)) /\ (\A n \in N : SameNumber(m, n) \/ Lt(m, n))
IsMaximumOf(m, N) ==
    IF N = {} THEN ~m.some
    ELSE (\E n \in N : SameNumber(m, n)) /\ (\A n \in N : SameNumber(m, n) \/ Lt(n, m))

CountsSumToRows(an) ==
    an.num_null + an.num_int + an.num_float + an.num_str = an.num_rows

\* C1: every record of the collector, and every record folded from such
\* records with __add__, has num_null + num_int + num_float + num_str == num_rows.
C1_CountsSumToRows ==
    /\ \A i \in 1..Len(slots) : CountsSumToRows(slots[i])
    /\ \A item \in pool : CountsSumToRows(item.rec)

\* a fold of all three slots in which every kind of cell was counted
C1_Witness ==
    \E item \in pool :
        /\ item.ids = {1, 2, 3}
        /\ item.rec.num_null > 0 /\ item.rec.num_int > 0
        /\ item.rec.num_float > 0 /\ item.rec.num_str > 0

\* the fields C2 names agree in two records
AgreeOnAggregates(r, s) ==
    /\ r.num_rows = s.num_rows /\ r.num_null = s.num_null
    /\ r.num_int = s.num_int /\ r.num_float = s.num_float /\ r.num_str = s.num_str
    /\ r.num_dupe = s.num_dupe /\ r.num_zero = s.num_zero
    /\ r.num_negative = s.num_negative
    /\ SameNumber(r.val_min, s.val_min) /\ SameNumber(r.val_max, s.val_max)
    /\ SameNumber(r.len_min, s.len_min) /\ SameNumber(r.len_max, s.len_max)
    /\ SameNumber(r.need_bits, s.need_bits)
    /\ r.seen_types = s.seen_types

\* C2: __add__ is associative and commutative on the aggregate counts, val_min,
\* val_max, len_min, len_max, need_bits and seen_types: every partial sum, built
\* in any order and association, agrees on them with the fold in CSV order.
C2_AddAssociativeCommutative ==
    \A item \in pool : AgreeOnAggregates(item.rec, FoldInOrder(slots, item.ids))

\* C3: every permutation and parenthesization of the fold of the slots yields
\* the same num_neg_vals.
C3_NegValsAnyOrder ==
    \A item \in pool : item.rec.num_neg_vals = FoldInOrder(slots, item.ids).num_neg_vals

HasIntAndFloat(column) == IntRows(column) # {} /\ FloatOnlyRows(column) # {}

\* C4 as claimed: a column with integer-parseable and float-only literals has
\* float and not int in seen_types, num_int == 0 and num_float == the numeric rows.
C4_MixedCountsAsFloat ==
    (pc # "read" /\ HasIntAndFloat(values)) =>
        /\ "float" \in stats.seen_types /\ "int" \notin stats.seen_types
        /\ stats.num_int = 0
        /\ stats.num_float = Cardinality(IntRows(values) \cup FloatOnlyRows(values))

\* C4 amended: such a column has float and not int in seen_types, but num_int
\* stays the number of integer-parseable rows and num_float the number of
\* float-only rows; ["1","2.5","3"] gives num_int == 2 and num_float == 1.
C4_MixedKeepsCounts ==
    /\ (pc # "read" /\ HasIntAndFloat(values)) =>
          /\ "float" \in stats.seen_types /\ "int" \notin stats.seen_types
          /\ stats.num_int = Cardinality(IntRows(values))
          /\ stats.num_float = Cardinality(FloatOnlyRows(values))
    /\ LET an == generate_stats(<<"1", "2.5", "3">>)
       IN an.seen_types = {"float"} /\ an.num_int = 2 /\ an.num_float = 1

\* the collector has scanned a column with two integer rows and a float row
C4_Witness ==
    /\ pc = "stats"
    /\ Cardinality(IntRows(values)) = 2
    /\ Cardinality(FloatOnlyRows(values)) = 1
    /\ stats.num_int = 2

\* C5: num_dupe == (num_rows - num_null) - the number of distinct non-empty
\* literals, num_null == the number of empty cells, val_min and val_max are the
\* minimum and the maximum of the numeric literals.
C5_DupesNullsMinMax ==
    pc # "read" =>
        /\ stats.num_dupe
             = (stats.num_rows - stats.num_null) - Cardinality(DistinctLiterals(values))
        /\ stats.num_null = Cardinality(NullRows(values))
        /\ IsMinimumOf(stats.val_min, Numbers(values))
        /\ IsMaximumOf(stats.val_max, Numbers(values))

(***************************************************************************)
(* The analyzer's records and the declarations they belong to.             *)
(***************************************************************************)
\* the record was learned from a CSV column (print_missing tags NO_TABLE)
Inferred(k) == "NO_TABLE" \notin data[k].tags

\* the tags analyze_table and analyze_fk_nulls add after inference
LaterTags == {"IGNORE_FK", "NEG_IS_NULL", "ZERO_IS_NULL"}

\* the column of record k declares a foreign key in the view
DeclaresFk(k) ==
    /\ k.table \in DOMAIN view
    /\ StripArray(k.column) \in DOMAIN view[k.table]
    /\ view[k.table][StripArray(k.column)].fk # NoFk

FkOf(k) == view[k.table][StripArray(k.column)].fk

\* C6 as claimed: re-running infer_type on a tagged record, sentinel-tagged
\* ones included, yields the tag set the record already has (records of the
\* IGNORE_FK list left aside).
C6_InferenceIdempotent ==
    \A k \in DOMAIN data :
        (Inferred(k) /\ "IGNORE_FK" \notin data[k].tags) =>
            infer_type(data[k]) = data[k].tags

\* C6 amended: re-running infer_type on a tagged record yields the tag set the
\* record already has when it received no later tag (IGNORE_FK, NEG_IS_NULL,
\* ZERO_IS_NULL); on a record that did, it yields the tags inference first
\* gave it: the later tags gone, the UNSIGNED that came with NEG_IS_NULL gone,
\* and NOT_NULL back when the column has no null and more than 2 rows.
C6_InferenceGivesFirstTags ==
    \A k \in DOMAIN data :
        Inferred(k) =>
            LET tags == data[k].tags
                first ==
                    ((tags \ LaterTags)
                        \ (IF "NEG_IS_NULL" \in tags THEN {"UNSIGNED"} ELSE {}))
                    \cup (IF data[k].num_null = 0 /\ data[k].num_rows > 2
                          THEN {"NOT_NULL"} ELSE {})
            IN /\ tags \cap LaterTags = {} => infer_type(data[k]) = tags
               /\ tags \cap LaterTags # {} =>
                     infer_type(data[k]) = first /\ infer_type(data[k]) # tags

\* a record that received both sentinel tags and lost NOT_NULL to them
C6_Witness ==
    /\ pc = "done"
    /\ \E k \in DOMAIN data :
          /\ {"NEG_IS_NULL", "ZERO_IS_NULL"} \subseteq data[k].tags
          /\ "NOT_NULL" \in infer_type(data[k])
          /\ "NOT_NULL" \notin data[k].tags

(***************************************************************************)
(* The declarations of the star around Faction.ID, before and after the    *)
(* reconciler's pass.                                                      *)
(***************************************************************************)
StarReferers == {c \in AllColumnIds(declared) : Decl(declared, c).fk = FactionID}
StarColumns == {FactionID} \cup StarReferers

\* w is the greatest declared width of the star
IsMaxDeclaredWidth(w) ==
    /\ \E c \in StarColumns : Decl(declared, c).int_width = w
    /\ \A c \in StarColumns : Decl(declared, c).int_width <= w

AllSignedAtMaxWidth ==
    \A c \in StarColumns :
        ~Decl(view, c).is_unsigned /\ IsMaxDeclaredWidth(Decl(view, c).int_width)

\* every referer is declared signed, is analyzed and is not tagged IGNORE_FK
AllReferersDeclaredSigned ==
    \A r \in StarReferers :
        /\ ~Decl(declared, r).is_unsigned
        /\ has_column(data, r)
        /\ "IGNORE_FK" \notin for_column(data, r).tags

UnsignedReferentSignedReferers ==
    /\ Decl(declared, FactionID).is_unsigned
    /\ Decl(declared, FactionID).int_width = 32
    /\ Cardinality(StarReferers) = 2
    /\ \A r \in StarReferers : ~Decl(declared, r).is_unsigned
    /\ {Decl(declared, r).int_width : r \in StarReferers} = {16, 32}
    /\ \A r \in StarReferers :
          /\ has_column(data, r)
          /\ "IGNORE_FK" \notin for_column(data, r).tags
          /\ for_column(data, r).num_rows > 0
          /\ for_column(data, r).num_negative = 0

AllUnsigned32 ==
    \A c \in StarColumns : Decl(view, c).is_unsigned /\ Decl(view, c).int_width = 32

\* C8 as claimed: in the example, whatever the row counts of the referers,
\* after the pass all three columns are unsigned with int_width 32.
C8_NoNegativesAnyRowCount ==
    (pc = "done" /\ UnsignedReferentSignedReferers) => AllUnsigned32

\* C8 amended: in the example, when the data of at least one referer earned
\* the tag UNSIGNED (integer values, more than 2 rows), after the pass all
\* three columns are unsigned with int_width 32.
C8_NoNegativesTaggedUnsigned ==
    (/\ pc = "done"
     /\ UnsignedReferentSignedReferers
     /\ \E r \in StarReferers : "UNSIGNED" \in for_column(data, r).tags)
    => AllUnsigned32

\* the example with one referer tagged UNSIGNED and one with too few rows to be
\* tagged: the referers disagree and the analysis decides
C8_Witness ==
    /\ pc = "done"
    /\ UnsignedReferentSignedReferers
    /\ \E r \in StarReferers : "UNSIGNED" \in for_column(data, r).tags
    /\ \E r \in StarReferers : "INSUFFICIENT_DATA" \in for_column(data, r).tags
    /\ AllUnsigned32

\* C9: after analyze_fk_nulls a column carries ZERO_IS_NULL if and only if it
\* declares a foreign key, is not tagged IGNORE_FK, its referent has an
\* analysis record whose seen kinds include int and whose num_zero is 0, and
\* its own num_zero is positive; a column with ZERO_IS_NULL has no NOT_NULL.
C9_ZeroSentinel ==
    pc = "done" =>
        \A k \in DOMAIN data :
            /\ "ZERO_IS_NULL" \in data[k].tags <=>
                  /\ DeclaresFk(k)
                  /\ "IGNORE_FK" \notin data[k].tags
                  /\ has_column(data, FkOf(k))
                  /\ "int" \in for_column(data, FkOf(k)).seen_types
                  /\ for_column(data, FkOf(k)).num_zero = 0
                  /\ data[k].num_zero > 0
            /\ "ZERO_IS_NULL" \in data[k].tags => "NOT_NULL" \notin data[k].tags

\* a referer with zero rows and no null, whose NOT_NULL gave way to ZERO_IS_NULL
C9_Witness ==
    /\ pc = "done"
    /\ \E k \in DOMAIN data :
          /\ "ZERO_IS_NULL" \in data[k].tags
          /\ data[k].num_null = 0 /\ data[k].num_rows > 2
          /\ for_column(data, FkOf(k)).num_rows > 0

StarRule == FixupRule(declared, data, get_fk_cols(declared), FactionID)

FixupApplied == pc = "done" /\ StarRule \in {"signed", "unsigned", "analysis"}

\* C11: after any sequence of fk_fixup_inner steps no declaration, referent or
\* referer, analyzed or not, IGNORE_FK or not, is narrower than it was
\* declared, and a fixup writes the greatest declared width of the referent
\* and all its referers.
C11_NeverTruncates ==
    /\ \A c \in AllColumnIds(view) :
          Decl(view, c).int_width >= Decl(declared, c).int_width
    /\ FixupApplied => IsMaxDeclaredWidth(Decl(view, FactionID).int_width)

\* C12: when fk_fixup_inner reaches the MISMATCH diagnostic for a referent, the
\* is_unsigned and int_width of the referent and of every referer are the same
\* after the step as before it.
C12_MismatchChangesNothing ==
    (pc = "done" /\ StarRule = "mismatch") =>
        \A c \in StarColumns :
            /\ Decl(view, c).is_unsigned = Decl(declared, c).is_unsigned
            /\ Decl(view, c).int_width = Decl(declared, c).int_width

\* the referent and every referer are declared with the same type, signedness
\* and width
AllDeclaredAgree ==
    \A r \in StarReferers :
        /\ Decl(declared, r).type = Decl(declared, FactionID).type
        /\ Decl(declared, r).is_unsigned = Decl(declared, FactionID).is_unsigned
        /\ Decl(declared, r).int_width = Decl(declared, FactionID).int_width

StarUnchanged ==
    \A c \in StarColumns :
        /\ Decl(view, c).is_unsigned = Decl(declared, c).is_unsigned
        /\ Decl(view, c).int_width = Decl(declared, c).int_width

\* the tags of every analyzed referer outside IGNORE_FK say what its
\* declaration says: UNSIGNED or NEG_IS_NULL exactly when declared unsigned
TagsAgreeWithDeclared ==
    \A r \in StarReferers :
        (has_column(data, r) /\ "IGNORE_FK" \notin for_column(data, r).tags) =>
            (Decl(declared, r).is_unsigned
               <=> for_column(data, r).tags \cap {"UNSIGNED", "NEG_IS_NULL"} # {})

IgnoredReferers ==
    {r \in StarReferers : has_column(data, r) /\ "IGNORE_FK" \in for_column(data, r).tags}

\* the FK graph with the ignored referers taken out
GraphWithoutIgnored ==
    [ref \in DOMAIN get_fk_cols(declared) |-> get_fk_cols(declared)[ref] \ IgnoredReferers]

\* the declarations of an ignored referer are as loaded
IgnoredUntouched ==
    \A r \in IgnoredReferers :
        /\ Decl(view, r).is_unsigned = Decl(declared, r).is_unsigned
        /\ Decl(view, r).int_width = Decl(declared, r).int_width

\* the other columns of the star end as they would without the ignored referers
IgnoredWithoutEffect ==
    pc = "done" =>
        \A c \in StarColumns \ IgnoredReferers :
            Decl(view, c) = Decl(FixupColumn(declared, data, GraphWithoutIgnored, FactionID), c)

\* C14: a referer tagged IGNORE_FK is excluded from reconciliation entirely: it
\* contributes to no count, width, mismatch or negative-value check, and its
\* own is_unsigned and int_width are never modified by fk_fixup.
C14_IgnoredExcluded == IgnoredUntouched /\ IgnoredWithoutEffect

\* the columns that are a referent or a referer in the FK graph of a view
GraphColumns(v) ==
    LET fkcols == get_fk_cols(v)
    IN DOMAIN fkcols \cup UNION {fkcols[ref] : ref \in DOMAIN fkcols}

\* what a step of fk_fixup leaves alone
FixupFrame ==
    LET graph == GraphColumns(view)
    IN /\ data' = data
       /\ DOMAIN view' = DOMAIN view
       /\ \A t \in DOMAIN view :
             /\ DOMAIN view'[t] = DOMAIN view[t]
             /\ \A c \in DOMAIN view[t] :
                   /\ view'[t][c].type = view[t][c].type
                   /\ view'[t][c].fk = view[t][c].fk
                   /\ view'[t][c].array_size = view[t][c].array_size
                   /\ view'[t][c].annotation = view[t][c].annotation
                   /\ DbdColumnId(t, c) \notin graph => view'[t][c] = view[t][c]
       /\ get_fk_cols(view') = get_fk_cols(view)

\* C17: fk_fixup writes only is_unsigned and int_width of declarations that are
\* a referent or a referer in the FK graph: type, foreign key, array size and
\* annotations of every declaration, every field of a declaration outside the
\* graph, the graph itself and all analysis records are unchanged by every step.
C17_WritesOnlySignAndWidth == [][FixupFrame]_vars

\* the pass changed the referent and a referer beside a column outside the graph
C17_Witness ==
    /\ pc = "done"
    /\ DbdColumnId("FactionTemplate", Name("Name")) \in AllColumnIds(view) \ GraphColumns(view)
    /\ Decl(view, FactionID).is_unsigned # Decl(declared, FactionID).is_unsigned
    /\ Decl(view, FactionID).int_width # Decl(declared, FactionID).int_width
    /\ \E r \in StarReferers : Decl(view, r) # Decl(declared, r)

(***************************************************************************)
(* The records of the array column Item.Flags.                             *)
(***************************************************************************)
FlagsRecords == {k \in DOMAIN data : k.table = "Item" /\ k.column.base = "Flags"}

\* the CSV of Item was read and had rows
ArrayAnalyzed == slots # <<>> /\ slots[1].num_rows > 0

\* two records hold the same statistics, whatever they were tagged with later
SameStatistics(r, s) ==
    [r EXCEPT !.tags = {}, !.issues = {}, !.fk = NoFk]
        = [s EXCEPT !.tags = {}, !.issues = {}, !.fk = NoFk]

ExistsInView(colid) ==
    colid.table \in DOMAIN view /\ colid.column \in DOMAIN view[colid.table]

\* C16: get_fk_cols holds referer R under referent T if and only if R's
\* declaration has foreign key T and T's table and column are in the view; a
\* foreign key whose table or column is missing gives no key, and what the
\* graph stores for a referer is the view's own declaration of that referer.
C16_FkGraph ==
    pc = "graph" =>
        /\ \A T \in (GraphTargets \ {NoFk}) \cup DOMAIN fkreferents :
              \A R \in AllColumnIds(view) \cup UNION {fkreferents[K] : K \in DOMAIN fkreferents} :
                  (T \in DOMAIN fkreferents /\ R \in fkreferents[T])
                      <=> (ExistsInView(R) /\ Decl(view, R).fk = T /\ ExistsInView(T))
        /\ \A T \in DOMAIN fkreferents : ExistsInView(T) /\ fkreferents[T] # {}

\* a view with a referent that has a referer, a foreign key to a missing table
\* and a foreign key to a missing column of a present table
C16_Witness ==
    /\ pc = "graph"
    /\ DOMAIN fkreferents # {}
    /\ \E R \in AllColumnIds(view) :
          Decl(view, R).fk # NoFk /\ Decl(view, R).fk.table \notin DOMAIN view
    /\ \E R \in AllColumnIds(view) :
          /\ Decl(view, R).fk # NoFk
          /\ Decl(view, R).fk.table \in DOMAIN view
          /\ ~ExistsInView(Decl(view, R).fk)

\* C18: for every analyzed column that has a declaration in the view, the
\* issues computed by compare_data contain REFERENT if and only if the column
\* is a key of the FK graph returned by get_fk_cols.
C18_ReferentIssue ==
    \A k \in DOMAIN data :
        LET colid == DbdColumnId(k.table, StripArray(k.column))
        IN (ExistsInView(colid) /\ "NO_TABLE" \notin data[k].tags)
              => ("REFERENT" \in data[k].issues <=> colid \in DOMAIN fkreferents)

\* C19: infer_type follows its rules in order: a record of no rows gets exactly
\* NO_DATA; a record of one or two rows gets exactly INSUFFICIENT_DATA; any
\* other record gets exactly one of MIXED_TYPES, NO_TYPES, INT, FLOAT, STRING
\* (INT, FLOAT or STRING only when it is the sole kind of seen_types), exactly
\* one of NOT_NULL and NULLABLE (NOT_NULL iff num_null == 0), and UNIQUE iff
\* num_dupe == 0.
KindTags == {"MIXED_TYPES", "NO_TYPES", "INT", "FLOAT", "STRING"}

C19_InferTypeRules ==
    pc = "tagged" =>
        /\ stats.num_rows = 0 => stats.tags = {"NO_DATA"}
        /\ stats.num_rows \in {1, 2} => stats.tags = {"INSUFFICIENT_DATA"}
        /\ stats.num_rows > 2 =>
              /\ Cardinality(stats.tags \cap KindTags) = 1
              /\ "INT" \in stats.tags => stats.seen_types = {"int"}
              /\ "FLOAT" \in stats.tags => stats.seen_types = {"float"}
              /\ "STRING" \in stats.tags => stats.seen_types = {"string"}
              /\ "MIXED_TYPES" \in stats.tags => Cardinality(stats.seen_types) > 1
              /\ "NO_TYPES" \in stats.tags => stats.seen_types = {}
              /\ Cardinality(stats.tags \cap {"NOT_NULL", "NULLABLE"}) = 1
              /\ "NOT_NULL" \in stats.tags <=> stats.num_null = 0
              /\ "UNIQUE" \in stats.tags <=> stats.num_dupe = 0
              /\ stats.tags \cap {"NO_DATA", "INSUFFICIENT_DATA"} = {}

\* a tagged column of four rows with a null, a repeated literal and two kinds
C19_Witness ==
    /\ pc = "tagged"
    /\ stats.num_rows = 4
    /\ stats.num_null = 1
    /\ stats.num_dupe = 1
    /\ stats.seen_types = {"int", "string"}
    /\ "MIXED_TYPES" \in stats.tags

\* the first early return of infer_type is taken
C19_WitnessEarly ==
    /\ pc = "tagged"
    /\ stats.num_rows = 0

(***************************************************************************)
(* The lookups of DbdBuilds against the items it stores.                   *)
(***************************************************************************)
\* the values stored under the ranges that hold the build
StoredFor(key) == {builds[i].value : i \in Containing(builds, key)}
\* the values stored under exactly the range
StoredUnder(key) == {builds[i].value : i \in {j \in 1..Len(builds) : builds[j].key = key}}
\* what indexing with the key is to give: a matching stored value, or KeyError
Indexed(key) == IF IsBuildId(key) THEN StoredFor(key) ELSE StoredUnder(key)

\* C20: builds[key] with a BuildId gives the column set of a stored range that
\* holds the build, and KeyError if no range does; builds[key] with a
\* BuildIdRange gives the column set stored under exactly that range; and
\* `key in builds` is true exactly when builds[key] would succeed.
C20_BuildsLookup ==
    pc = "looked" =>
        /\ lookup.op = "getitem" =>
              IF Indexed(lookup.key) = {} THEN lookup.result = "KeyError"
              ELSE lookup.result \in Indexed(lookup.key)
        /\ lookup.op = "contains" =>
              (lookup.result <=> DbdBuilds__getitem__(builds, lookup.key) # "KeyError")

\* the same, for the lookups with a BuildId alone
C20_BuildLookup ==
    (pc = "looked" /\ IsBuildId(lookup.key)) =>
        /\ lookup.op = "getitem" =>
              IF StoredFor(lookup.key) = {} THEN lookup.result = "KeyError"
              ELSE lookup.result \in StoredFor(lookup.key)
        /\ lookup.op = "contains" => (lookup.result <=> StoredFor(lookup.key) # {})

\* C21: infer_type gives UNSIGNED, NOT_ZERO or HAS_ZERO only to a record of
\* integer kind, that is only together with INT and never together with
\* MIXED_TYPES, FLOAT or STRING; on a record of integer kind UNSIGNED is present
\* iff num_negative == 0, and exactly one of NOT_ZERO and HAS_ZERO is present
\* (NOT_ZERO iff num_zero == 0).
SignTags == {"UNSIGNED", "NOT_ZERO", "HAS_ZERO"}

C21_SignTagsIntegerOnly ==
    pc = "tagged" =>
        /\ stats.tags \cap SignTags # {} =>
              /\ "INT" \in stats.tags
              /\ stats.tags \cap {"MIXED_TYPES", "FLOAT", "STRING"} = {}
        /\ "INT" \in stats.tags =>
              /\ "UNSIGNED" \in stats.tags <=> stats.num_negative = 0
              /\ Cardinality(stats.tags \cap {"NOT_ZERO", "HAS_ZERO"}) = 1
              /\ "NOT_ZERO" \in stats.tags <=> stats.num_zero = 0

\* the rows of a column whose cell is a number below zero / equal to zero
NumericRows(column) == IntRows(column) \cup FloatOnlyRows(column)
NegativeRows(column) == {i \in NumericRows(column) : Lt(NumberOf(column[i]), PyInt(0))}
ZeroRows(column) == {i \in NumericRows(column) : NumEq(NumberOf(column[i]), PyInt(0))}

\* C22: generate_stats counts in num_zero the rows whose value is zero and in
\* num_negative the rows whose value is negative, every repetition counted,
\* integer and float literals alike; num_neg_vals is the number of distinct
\* negative literals; so num_neg_vals <= num_negative <= num_int + num_float
\* and num_zero <= num_int + num_float.
C22_MultiplicityWeighting ==
    pc # "read" =>
        /\ stats.num_zero = Cardinality(ZeroRows(values))
        /\ stats.num_negative = Cardinality(NegativeRows(values))
        /\ stats.num_neg_vals = Cardinality({values[i] : i \in NegativeRows(values)})
        /\ stats.num_neg_vals <= stats.num_negative
        /\ stats.num_negative <= stats.num_int + stats.num_float
        /\ stats.num_zero <= stats.num_int + stats.num_float

\* a scanned column with a repeated negative integer, a negative float and a
\* float zero
C22_Witness ==
    /\ pc = "stats"
    /\ stats.num_negative = 3
    /\ stats.num_neg_vals = 2
    /\ stats.num_zero = 1
    /\ stats.num_int = 2
    /\ stats.num_float = 2

\* the ignore-listed referer of the analyzer's views
AchievementFaction == DbdColumnId("Achievement", Name("Faction"))

\* the numeric signal of both sentinels is on the ignore-listed referer
SentinelSignals ==
    /\ has_column(data, AchievementFaction) /\ has_column(data, FactionID)
    /\ Inferred(AchievementFaction) /\ Inferred(FactionID)
    /\ "int" \in data[AchievementFaction].seen_types
    /\ data[AchievementFaction].num_rows > 2
    /\ data[AchievementFaction].num_neg_vals = 1
    /\ Ge(data[AchievementFaction].val_min, PyInt(-2))
    /\ data[AchievementFaction].num_zero > 0
    /\ "int" \in data[FactionID].seen_types
    /\ data[FactionID].num_zero = 0

RefererSlotRecords ==
    {k \in DOMAIN data :
        \E r \in StarReferers : k.table = r.table /\ k.column.base = r.column.base}

\* C24: when the referers of a referent disagree on signedness, the reconciler
\* forces the referent and the referers unsigned from the analysis only if no
\* slot of any referer, slot 0 or later, has a negative row.
C24_FallbackSeesEverySlot ==
    (pc = "done" /\ StarRule = "analysis") =>
        \A k \in RefererSlotRecords : data[k].num_negative = 0

\* one fk_fixup_inner step on Faction.ID with the referers visited in `order`
StepInOrder(order) == FixupColumnInOrder(view, data, FactionID, order)

\* C25: reconciling one referent does not depend on the order in which its
\* referers are visited: from the same declarations, every order of the
\* referers ends with the same is_unsigned and int_width on the referent and
\* on every referer, and takes the same branch.
RefererOrderFree ==
    (pc = "fixup" /\ pc' = "stepped") =>
        \A order \in Orders(fkreferents[FactionID]) :
            /\ StepInOrder(order).v = view'
            /\ \A other \in Orders(fkreferents[FactionID]) :
                  StepInOrder(order).rule = StepInOrder(other).rule

C25_RefererOrderFree == [][RefererOrderFree]_vars

\* a step was taken on a star whose three referers differ in declared sign,
\* in width and in their data, and the step changed the declarations
C25_Witness ==
    /\ pc = "stepped"
    /\ view # declared
    /\ Cardinality({Decl(declared, r).int_width : r \in StarReferers}) = 2
    /\ Cardinality({Decl(declared, r).is_unsigned : r \in StarReferers}) = 2
    /\ \A r \in StarReferers : has_column(data, r)
    /\ Cardinality({for_column(data, r).num_negative : r \in StarReferers}) > 1

\* C26: no record handed to inference, from generate_stats on one CSV column or
\* from folding array slots with __add__, has both int and float in
\* seen_types; a column in which integer and float values were observed, and
\* no text, is tagged FLOAT and not MIXED_TYPES.
C26_FoldCollapsesIntIntoFloat ==
    \A k \in DOMAIN data :
        Inferred(k) =>
            /\ ~({"int", "float"} \subseteq data[k].seen_types)
            /\ (data[k].num_rows > 2 /\ data[k].num_int > 0 /\ data[k].num_float > 0
                    /\ data[k].num_str = 0) =>
                  ("FLOAT" \in data[k].tags /\ "MIXED_TYPES" \notin data[k].tags)

\* max(bit_length(val_min), bit_length(val_max))
BitsOfRange(an) ==
    PyInt(IF bit_length(an.val_min) > bit_length(an.val_max)
          THEN bit_length(an.val_min) ELSE bit_length(an.val_max))

\* what C27 says of every record: need_bits covers val_min and val_max when
\* the numbers of the record are all integers, and is None without an integer
NeedBitsOfRecord(an) ==
    /\ (an.num_int > 0 /\ an.num_float = 0) => an.need_bits = BitsOfRange(an)
    /\ an.num_int = 0 => an.need_bits = None

\* C27 as claimed: generate_stats sets need_bits whenever an integer was
\* observed in the column; every record whose numbers are all integers,
\* collector output or fold, has need_bits == max(bit_length(val_min),
\* bit_length(val_max)); need_bits is None when no integer was observed; the
\* assertion on the types of val_min and val_max never fails.
C27_NeedBitsWheneverIntSeen ==
    /\ \A i \in 1..Len(slots) :
          /\ slots[i].num_int > 0 => slots[i].need_bits.some
          /\ NeedBitsOfRecord(slots[i])
          /\ NeedBitsAssertion(slots[i])
    /\ \A x \in pool : NeedBitsOfRecord(x.rec)

\* C27 amended: generate_stats sets need_bits exactly when int is left in
\* seen_types, that is when an integer and no float was observed in the
\* column; the rest as claimed.
C27_NeedBitsOfIntKind ==
    /\ \A i \in 1..Len(slots) :
          /\ slots[i].need_bits.some <=> (slots[i].num_int > 0 /\ slots[i].num_float = 0)
          /\ slots[i].need_bits.some <=> "int" \in slots[i].seen_types
          /\ NeedBitsOfRecord(slots[i])
          /\ NeedBitsAssertion(slots[i])
    /\ \A x \in pool : NeedBitsOfRecord(x.rec)

\* three slots were folded into a record of integers alone, one slot without
\* an integer, one needing 1 bit and one needing 2
C27_Witness ==
    /\ pc = "fold"
    /\ \E x \in pool :
          /\ Cardinality(x.ids) = 3
          /\ x.rec.num_int > 0 /\ x.rec.num_float = 0
          /\ x.rec.need_bits = PyInt(2)
    /\ \E i \in 1..Len(slots) : slots[i].need_bits = None
    /\ \E i \in 1..Len(slots) : slots[i].need_bits = PyInt(1)

\* the pass over the loaded declarations, the tables walked in `tables`
PassInOrder(tables) == fk_fixup(declared, get_fk_cols(declared), data, tables)

\* a column of the view is a referer and a referent with referers
HasChain ==
    \E c \in DOMAIN fkreferents : Decl(declared, c).fk \in DOMAIN fkreferents

\* C28 as claimed: the result of one fk_fixup pass does not depend on the
\* order in which the tables are walked, chains of foreign keys included:
\* every order of the tables ends with the same is_unsigned and int_width on
\* every declaration.
C28_TableOrderFree ==
    pc = "done" => \A tables \in Orders(DOMAIN declared) : PassInOrder(tables) = view

\* C28 amended: the same, for the views in which no referent is itself a referer.
C28_TableOrderFreeWithoutChain ==
    (pc = "done" /\ ~HasChain) =>
        \A tables \in Orders(DOMAIN declared) : PassInOrder(tables) = view

\* a finished pass over a view of two stars, in which both referents were
\* rewritten
C28_Witness ==
    /\ pc = "done"
    /\ ~HasChain
    /\ DOMAIN fkreferents = {FactionID, FactionTemplateID}
    /\ CTD(Decl(view, FactionID)) # CTD(Decl(declared, FactionID))
    /\ CTD(Decl(view, FactionTemplateID)) # CTD(Decl(declared, FactionTemplateID))

\* a further pass leaves every declaration as it is
AtFixpoint == fk_fixup(view, fkreferents, data, todo) = view

\* the tables a pass walks before it comes to `tablename`
RECURSIVE TablesBefore(_, _)
TablesBefore(tables, tablename) ==
    IF tables = <<>> \/ Head(tables) = tablename THEN <<>>
    ELSE <<Head(tables)>> \o TablesBefore(Tail(tables), tablename)

\* the branch a further pass takes for the referent
RuleInPass(referent_col) ==
    FixupRule(fk_fixup(view, fkreferents, data, TablesBefore(todo, referent_col.table)),
              data, fkreferents, referent_col)

\* the edges the claim speaks of: the referer is analyzed and not IGNORE_FK,
\* the referent does not end in the MISMATCH branch
SettledEdges ==
    {e \in UNION {{<<T, r>> : r \in fkreferents[T]} : T \in DOMAIN fkreferents} :
        /\ has_column(data, e[2])
        /\ "IGNORE_FK" \notin for_column(data, e[2]).tags
        /\ RuleInPass(e[1]) # "mismatch"}

SameSignAndWidth(e) ==
    /\ Decl(view, e[1]).is_unsigned = Decl(view, e[2]).is_unsigned
    /\ Decl(view, e[1]).int_width = Decl(view, e[2]).int_width

\* C29 as claimed: repeating fk_fixup over a fixed view, FK graph and analysis
\* reaches, after finitely many passes, declarations that a further pass leaves
\* unchanged, and there every edge whose referer is analyzed and not IGNORE_FK
\* and whose referent did not end in the MISMATCH branch joins two columns of
\* equal signedness and equal width.
C29_FixpointConsistent ==
    <>[](AtFixpoint /\ \A e \in SettledEdges : SameSignAndWidth(e))

\* C29 amended: the fixpoint is reached on every view; the equality holds on
\* every such edge of a view without a chain, where no referent is itself a
\* referer.
C29_FixpointConsistentWithoutChain ==
    <>[](AtFixpoint /\ (~HasChain => \A e \in SettledEdges : SameSignAndWidth(e)))

\* a fixpoint of a view without a chain that is not the declared view: a
\* pass has rewritten Faction.ID, and its edges are settled
C29_Witness ==
    /\ AtFixpoint
    /\ view # declared
    /\ ~HasChain
    /\ \E e \in SettledEdges : e[1] = FactionID
    /\ CTD(Decl(view, FactionID)) # CTD(Decl(declared, FactionID))

\* the cell is a negative number / the number zero, whatever its spelling
NegativeCell(v) == FloatParses(v) /\ Lt(FloatTable[v], PyInt(0))
ZeroCell(v) == FloatParses(v) /\ NumEq(FloatTable[v], PyInt(0))

\* what the claim has load_one make of the cell v of column c of the table
SentinelConverted(tablename, c, v) ==
    LET colid == DbdColumnId(tablename, c)
        tags == IF has_column(data, colid) THEN for_column(data, colid).tags ELSE {}
    IN IF /\ "IGNORE_FK" \notin tags
          /\ \/ "NEG_IS_NULL" \in tags /\ NegativeCell(v)
             \/ "ZERO_IS_NULL" \in tags /\ ZeroCell(v)
       THEN NullCell ELSE Cell(v)

\* the file of the table load_one was last called on
LoadedFile == datadir[rows.table]

\* C30: load_one is total on analyzed data: for every table and every row it
\* returns a row without raising, with None in place of a cell exactly when
\* the column is tagged NEG_IS_NULL (and not IGNORE_FK) and the value is
\* negative, or tagged ZERO_IS_NULL (and not IGNORE_FK) and the value is zero,
\* and with every other cell as it was read, the empty cells of a column tagged
\* NEG_IS_NULL or ZERO_IS_NULL included.
C30_LoaderTotal ==
    rows.table # "" =>
        /\ rows.raised = ""
        /\ Len(rows.rows) = Len(LoadedFile.cols[1])
        /\ \A i \in 1..Len(rows.rows), j \in 1..Len(LoadedFile.header) :
              rows.rows[i][LoadedFile.header[j]] =
                  SentinelConverted(rows.table, LoadedFile.header[j], LoadedFile.cols[j][i])

====
